---- MODULE Spec2Model ----
(***************************************************************************)
(* Model of the simplecloud request handlers: the auth handler             *)
(* (src/api/auth.js), the storage handler in its in-memory form            *)
(* (src/api/jsonbin.js) and in its JSONBin-backed form                     *)
(* (src/unnamed/part_001), and the login page script                       *)
(* (src/unnamed/part_000 with apiFetch of src/assets/js/utils.js).         *)
(*                                                                         *)
(* A request is held in a slot of reqs from the moment the handler starts  *)
(* on it until a later request takes the slot; the slot keeps the          *)
(* handler's local variables across each await and, once the handler has   *)
(* answered, the response.                                                 *)
(***************************************************************************)
EXTENDS Integers, Sequences, FiniteSets, TLC

VARIABLES
    now,            \* Date.now(), in milliseconds
    storageData,    \* src/api/jsonbin.js: the in-memory Map storageId -> storage
    users,          \* src/api/auth.js (in-memory form): the Map storageId -> user
    bins,           \* the external document store: storageId -> document
    rateLimitMap,   \* the storage handler's Map ip -> timestamps
    authRateLimitMap, \* the auth handler's Map "ip:fingerprint" -> timestamps
    reqs,           \* the requests: slot -> position, request, locals, response
    page            \* the login page script: position, last fetch, toast, localStorage

vars == <<now, storageData, users, bins, rateLimitMap, authRateLimitMap, reqs, page>>

----------------------------------------------------------------------------
(* Bounds of the model. *)

\* The clock starts here; the timestamps already in a rate-limit list are older.
StartTime == 1000
\* Date.now() takes the values StartTime .. StartTime + MaxTicks.
MaxTicks == 1
\* Requests of the fresh client address that may pass the rate limiter.
MaxPassed == 3
\* Hours the clock of the rate limiter specifications runs.
MaxHours == 1

(* Program constants. *)
RATE_WINDOW == 3600000
STORE_RATE_LIMIT == 120
AUTH_RATE_LIMIT == 60

Slots == {"r1", "r2"}
StorageIds == {"alice", "bob"}
Passwords == {"pw1", "pw2"}
\* "10.0.0.1" has made no request yet; "10.0.0.2" is one request short of its limit.
FreshIP == "10.0.0.1"
BusyIP == "10.0.0.2"
Times == StartTime .. (StartTime + MaxTicks)

----------------------------------------------------------------------------
(* JSON values.  An object is a record with one field per property the     *)
(* handlers read; has is the set of the properties that are defined, and   *)
(* an undefined property holds the default of its type.                    *)

\* Date.now().toString(): the decimal numeral of the clock.
IdOf(t) == ToString(t)

\* The folder every new storage starts with: no parentId, no timestamps.
RootFolder ==
    [id |-> "root", name |-> "Home", path |-> "/", parentId |-> "",
     modified |-> 0, created |-> 0]

NoStorage == [files |-> << >>, folders |-> << >>]

\* {files, folders}: the shape the storage handlers work on.
FlatDoc(files, folders) ==
    [has |-> {"files", "folders"}, password |-> "", createdAt |-> 0,
     files |-> files, folders |-> folders, storage |-> NoStorage]

\* {password, createdAt, storage: {files, folders}}: the user record.
UserDoc(hash, t, storage) ==
    [has |-> {"password", "createdAt", "storage"}, password |-> hash, createdAt |-> t,
     files |-> << >>, folders |-> << >>, storage |-> storage]

\* An object with none of these properties.
EmptyDoc ==
    [has |-> {}, password |-> "", createdAt |-> 0,
     files |-> << >>, folders |-> << >>, storage |-> NoStorage]

\* The data of a request body: absent, or an object whose file and folder
\* properties are name .. path and whose document properties are doc.
NoData ==
    [present |-> FALSE, name |-> "", size |-> 0, type |-> "", content |-> "",
     path |-> "", doc |-> EmptyDoc]

FileData(name, content) ==
    [present |-> TRUE, name |-> name, size |-> 1, type |-> "text/plain",
     content |-> content, path |-> "", doc |-> EmptyDoc]

FolderData(name) ==
    [present |-> TRUE, name |-> name, size |-> 0, type |-> "", content |-> "",
     path |-> "", doc |-> EmptyDoc]

DocData(doc) ==
    [present |-> TRUE, name |-> "", size |-> 0, type |-> "", content |-> "",
     path |-> "", doc |-> doc]

----------------------------------------------------------------------------
(* Tokens.  jwt.sign binds the storage id to the secret; jwt.verify        *)
(* accepts exactly the tokens signed with it.  A token leaves the model    *)
(* long before its seven days are over.                                    *)

NoToken == [present |-> FALSE, signed |-> FALSE, storageId |-> ""]
JwtSign(storageId) == [present |-> TRUE, signed |-> TRUE, storageId |-> storageId]
ForgedToken(storageId) == [present |-> TRUE, signed |-> FALSE, storageId |-> storageId]
JwtVerify(token) == token.signed

----------------------------------------------------------------------------
(* Responses. *)

NoFolder == RootFolder

Response(status, error, message) ==
    [status |-> status, error |-> error, message |-> message, cookie |-> NoToken,
     body |-> "json", doc |-> EmptyDoc, folder |-> NoFolder, storageId |-> ""]

NoResponse == [Response(0, "", "") EXCEPT !.body = "none"]
ErrorResponse(status, error) == Response(status, error, "")
\* res.status(200).end(): no body
EndResponse(status) == [Response(status, "", "") EXCEPT !.body = "none"]
\* res.status(200).json(userStorage)
DocResponse(doc) == [Response(200, "", "") EXCEPT !.body = "storage", !.doc = doc]
FolderResponse(message, folder) ==
    [Response(200, "", message) EXCEPT !.body = "folder", !.folder = folder]

----------------------------------------------------------------------------
(* Requests. *)

NoRequest ==
    [method |-> "", hasBody |-> FALSE, csrf |-> "", cookie |-> NoToken,
     forwardedFor |-> "", remoteAddress |-> "", deviceFingerprint |-> "",
     action |-> "", storageId |-> "", password |-> "", data |-> NoData,
     fileId |-> "", folderId |-> "", newName |-> "", itemType |-> ""]

\* req.headers['x-forwarded-for'] || req.connection.remoteAddress
ClientIP(req) ==
    IF req.forwardedFor # "" THEN req.forwardedFor ELSE req.remoteAddress

----------------------------------------------------------------------------
(* The rate limiter: isRateLimited.                                        *)

Recent(timestamps, t) ==
    SelectSeq(timestamps, LAMBDA timestamp : timestamp > t - RATE_WINDOW)

\* The loop over rateLimitMap.entries(): drop or trim every entry.
CleanUp(map, t) ==
    [key \in {k \in DOMAIN map : Len(Recent(map[k], t)) # 0} |-> Recent(map[key], t)]

\* A variant that records the time of a request it refuses, in place of the
\* oldest one.
IsRateLimitedRecording(map, key, t, limit) ==
    LET cleaned == CleanUp(map, t)
        timestamps == IF key \in DOMAIN cleaned THEN cleaned[key] ELSE << >>
    IN  [limited |-> Len(timestamps) >= limit,
         map |-> [k \in DOMAIN cleaned \cup {key} |->
                     IF k = key
                     THEN SubSeq(Append(timestamps, t),
                                 IF Len(timestamps) >= limit THEN 2 ELSE 1,
                                 Len(timestamps) + 1)
                     ELSE cleaned[k]]]

\* A variant that refuses only above the limit.
IsRateLimitedAbove(map, key, t, limit) ==
    LET cleaned == CleanUp(map, t)
        timestamps == IF key \in DOMAIN cleaned THEN cleaned[key] ELSE << >>
    IN  IF Len(timestamps) > limit
        THEN [limited |-> TRUE, map |-> cleaned]
        ELSE [limited |-> FALSE,
              map |-> [k \in DOMAIN cleaned \cup {key} |->
                          IF k = key THEN Append(timestamps, t) ELSE cleaned[k]]]

\* [limited, map]: the answer and the map the call leaves behind.
IsRateLimited(map, key, t, limit) ==
    LET cleaned == CleanUp(map, t)
        timestamps == IF key \in DOMAIN cleaned THEN cleaned[key] ELSE << >>
    IN  IF Len(timestamps) >= limit
        THEN [limited |-> TRUE, map |-> cleaned]
        ELSE [limited |-> FALSE,
              map |-> [k \in DOMAIN cleaned \cup {key} |->
                          IF k = key THEN Append(timestamps, t) ELSE cleaned[k]]]

\* A list one short of the limit, of requests made before the clock of the model.
Earlier(n) == [i \in 1 .. n |-> i]

\* The model stops a client address after MaxPassed counted requests, unless the
\* address is at the limit of the rate limiter or one request short of it.
MayArrive(map, key, limit) ==
    LET n == IF key \in DOMAIN map THEN Len(map[key]) ELSE 0
    IN  n < MaxPassed \/ n >= limit - 1

----------------------------------------------------------------------------
(* The storage actions, on the object userStorage.  Both forms of the      *)
(* storage handler run the same code on it; they differ in where the       *)
(* object comes from and where it goes.  Each operator gives              *)
(*   kind "respond": the handler answers resp and saves nothing;           *)
(*   kind "save":    the handler saves us, then answers resp, or a 500     *)
(*                   with the error fail when the save fails;              *)
(*   kind "throw":   a TypeError reaches the outer catch;                  *)
(* and us, the object as the code has left it by then.                     *)

Outcome(kind, resp, fail, us) == [kind |-> kind, resp |-> resp, fail |-> fail, us |-> us]
Respond(resp, us) == Outcome("respond", resp, "", us)
Save(message, fail, us) == Outcome("save", Response(200, "", message), fail, us)
Throw(us) == Outcome("throw", ErrorResponse(500, "Internal server error"), "", us)

FirstIndex(seq, id) ==
    IF \E i \in 1 .. Len(seq) : seq[i].id = id
    THEN CHOOSE i \in 1 .. Len(seq) :
            seq[i].id = id /\ \A j \in 1 .. (i - 1) : seq[j].id # id
    ELSE 0

GetStorage(us) == Respond(DocResponse(us), us)

\* A variant that keeps the folders it finds.
UpdateStorageKeepingFolders(us, data) ==
    IF ~data.present
    THEN Respond(ErrorResponse(400, "Data is required"), us)
    ELSE Save("Storage updated successfully", "Failed to update storage",
              [data.doc EXCEPT !.folders = us.folders])

UpdateStorage(us, data) ==
    IF ~data.present
    THEN Respond(ErrorResponse(400, "Data is required"), us)
    ELSE Save("Storage updated successfully", "Failed to update storage", data.doc)

NewFile(data, folderId, t) ==
    [id |-> IdOf(t), name |-> data.name, size |-> data.size, type |-> data.type,
     content |-> data.content,
     folderId |-> IF folderId = "" THEN "root" ELSE folderId,
     modified |-> t, created |-> t]

\* A variant that stores the new file in place of the files it finds.
AddFileAlone(us, data, folderId, t) ==
    IF ~data.present
    THEN Respond(ErrorResponse(400, "File data is required"), us)
    ELSE IF "files" \notin us.has
    THEN Throw(us)
    ELSE Save("File added successfully", "Failed to add file",
              [us EXCEPT !.files = <<NewFile(data, folderId, t)>>])

AddFile(us, data, folderId, t) ==
    IF ~data.present
    THEN Respond(ErrorResponse(400, "File data is required"), us)
    ELSE IF "files" \notin us.has
    THEN Throw(us)
    ELSE Save("File added successfully", "Failed to add file",
              [us EXCEPT !.files = Append(@, NewFile(data, folderId, t))])

NewFolder(data, folderId, t) ==
    [id |-> IdOf(t), name |-> data.name,
     path |-> IF data.path = "" THEN "/" ELSE data.path,
     parentId |-> IF folderId = "" THEN "root" ELSE folderId,
     modified |-> t, created |-> t]

AddFolder(us, data, folderId, t) ==
    IF ~data.present \/ data.name = ""
    THEN Respond(ErrorResponse(400, "Folder name is required"), us)
    ELSE IF "folders" \notin us.has
    THEN Throw(us)
    ELSE [Save("Folder added successfully", "Failed to add folder",
               [us EXCEPT !.folders = Append(@, NewFolder(data, folderId, t))])
            EXCEPT !.resp = FolderResponse("Folder added successfully",
                                           NewFolder(data, folderId, t))]

\* The records of seq with the id renamed, every one of them.
RenameEvery(seq, id, newName, t) ==
    [i \in DOMAIN seq |->
        IF seq[i].id = id THEN [seq[i] EXCEPT !.name = newName, !.modified = t]
        ELSE seq[i]]

\* A variant that renames every record with the id.
RenameItemEvery(us, itemType, fileId, newName, t) ==
    IF itemType = "" \/ fileId = "" \/ newName = ""
    THEN Respond(ErrorResponse(400, "Item type, ID and new name are required"), us)
    ELSE IF itemType = "file"
    THEN IF "files" \notin us.has
         THEN Throw(us)
         ELSE IF FirstIndex(us.files, fileId) = 0
              THEN Respond(ErrorResponse(404, "File not found"), us)
              ELSE Save("Item renamed successfully", "Failed to rename item",
                        [us EXCEPT !.files = RenameEvery(@, fileId, newName, t)])
    ELSE IF itemType = "folder"
    THEN IF "folders" \notin us.has
         THEN Throw(us)
         ELSE IF FirstIndex(us.folders, fileId) = 0
              THEN Respond(ErrorResponse(404, "Folder not found"), us)
              ELSE Save("Item renamed successfully", "Failed to rename item",
                        [us EXCEPT !.folders = RenameEvery(@, fileId, newName, t)])
    ELSE Respond(ErrorResponse(400, "Invalid item type"), us)

RenameItem(us, itemType, fileId, newName, t) ==
    IF itemType = "" \/ fileId = "" \/ newName = ""
    THEN Respond(ErrorResponse(400, "Item type, ID and new name are required"), us)
    ELSE IF itemType = "file"
    THEN IF "files" \notin us.has
         THEN Throw(us)
         ELSE LET fileIndex == FirstIndex(us.files, fileId)
              IN  IF fileIndex = 0
                  THEN Respond(ErrorResponse(404, "File not found"), us)
                  ELSE Save("Item renamed successfully", "Failed to rename item",
                            [us EXCEPT !.files[fileIndex].name = newName,
                                       !.files[fileIndex].modified = t])
    ELSE IF itemType = "folder"
    THEN IF "folders" \notin us.has
         THEN Throw(us)
         ELSE LET folderIndex == FirstIndex(us.folders, fileId)
              IN  IF folderIndex = 0
                  THEN Respond(ErrorResponse(404, "Folder not found"), us)
                  ELSE Save("Item renamed successfully", "Failed to rename item",
                            [us EXCEPT !.folders[folderIndex].name = newName,
                                       !.folders[folderIndex].modified = t])
    ELSE Respond(ErrorResponse(400, "Invalid item type"), us)

\* A variant that removes the first file with the id only.
DeleteFileFirst(us, fileId) ==
    LET fileIndex == FirstIndex(us.files, fileId)
    IN  IF fileIndex = 0 THEN us
        ELSE [us EXCEPT !.files = SubSeq(@, 1, fileIndex - 1)
                                     \o SubSeq(@, fileIndex + 1, Len(@))]

\* userStorage.files = userStorage.files.filter(f => f.id !== fileId)
DeleteFile(us, fileId) ==
    [us EXCEPT !.files = SelectSeq(@, LAMBDA f : f.id # fileId)]

\* A slip: the files are matched by their own id.
DeleteFolderFilesById(us, fileId) ==
    [us EXCEPT !.files = SelectSeq(@, LAMBDA f : f.id # fileId)]

\* The files of the folder go first, then the folder.
DeleteFolderFiles(us, fileId) ==
    [us EXCEPT !.files = SelectSeq(@, LAMBDA f : f.folderId # fileId)]

DeleteFolder(us, fileId) ==
    [us EXCEPT !.folders = SelectSeq(@, LAMBDA f : f.id # fileId)]

DeleteItem(us, itemType, fileId) ==
    IF itemType = "" \/ fileId = ""
    THEN Respond(ErrorResponse(400, "Item type and ID are required"), us)
    ELSE IF itemType = "file"
    THEN IF "files" \notin us.has
         THEN Throw(us)
         ELSE Save("Item deleted successfully", "Failed to delete item",
                   DeleteFile(us, fileId))
    ELSE IF itemType = "folder"
    THEN IF "files" \notin us.has
         THEN Throw(us)
         ELSE IF "folders" \notin us.has
         THEN Throw(DeleteFolderFiles(us, fileId))
         ELSE Save("Item deleted successfully", "Failed to delete item",
                   DeleteFolder(DeleteFolderFiles(us, fileId), fileId))
    ELSE Respond(ErrorResponse(400, "Invalid item type"), us)

\* The chain of if (action === ...) of the storage handler.
Dispatch(us, req, t) ==
    IF req.action = "getStorage" THEN GetStorage(us)
    ELSE IF req.action = "updateStorage" THEN UpdateStorage(us, req.data)
    ELSE IF req.action = "addFile" THEN AddFile(us, req.data, req.folderId, t)
    ELSE IF req.action = "addFolder" THEN AddFolder(us, req.data, req.folderId, t)
    ELSE IF req.action = "renameItem"
    THEN RenameItem(us, req.itemType, req.fileId, req.newName, t)
    ELSE IF req.action = "deleteItem" THEN DeleteItem(us, req.itemType, req.fileId)
    ELSE Respond(ErrorResponse(400, "Invalid action"), us)

\* A variant that wants the CSRF header to fit the action.
StoreGateFitting(req) ==
    IF req.method = "OPTIONS" THEN EndResponse(200)
    ELSE IF req.method # "POST" THEN ErrorResponse(405, "Method not allowed")
    ELSE IF ~req.cookie.present THEN ErrorResponse(401, "Not authenticated")
    ELSE IF ~JwtVerify(req.cookie) THEN ErrorResponse(401, "Invalid token")
    ELSE IF req.csrf \notin {"read", "write", "delete"}
              \/ (req.csrf = "read" /\ req.hasBody /\ req.action # "getStorage")
    THEN ErrorResponse(401, "Invalid CSRF token")
    ELSE IF ~req.hasBody THEN ErrorResponse(500, "Internal server error")
    ELSE NoResponse

\* A variant that answers a bad CSRF header with 403.
StoreGateForbidden(req) ==
    IF req.method = "OPTIONS" THEN EndResponse(200)
    ELSE IF req.method # "POST" THEN ErrorResponse(405, "Method not allowed")
    ELSE IF ~req.cookie.present THEN ErrorResponse(401, "Not authenticated")
    ELSE IF ~JwtVerify(req.cookie) THEN ErrorResponse(401, "Invalid token")
    ELSE IF req.csrf \notin {"read", "write", "delete"}
    THEN ErrorResponse(403, "Invalid CSRF token")
    ELSE IF ~req.hasBody THEN ErrorResponse(500, "Internal server error")
    ELSE NoResponse

\* What the storage handler answers before it looks at the body: the method,
\* the cookie and the CSRF header.  A status of 0 lets the request through.
StoreGate(req) ==
    IF req.method = "OPTIONS" THEN EndResponse(200)
    ELSE IF req.method # "POST" THEN ErrorResponse(405, "Method not allowed")
    ELSE IF ~req.cookie.present THEN ErrorResponse(401, "Not authenticated")
    ELSE IF ~JwtVerify(req.cookie) THEN ErrorResponse(401, "Invalid token")
    ELSE IF req.csrf \notin {"read", "write", "delete"}
    THEN ErrorResponse(401, "Invalid CSRF token")
    ELSE IF ~req.hasBody THEN ErrorResponse(500, "Internal server error")
    ELSE NoResponse

----------------------------------------------------------------------------
(* The login page (src/unnamed/part_000) and apiFetch                      *)
(* (src/assets/js/utils.js).  page.pc is the place of the one handler the  *)
(* page runs: "fetch" at the await of apiFetch, "simulate" at the await of *)
(* simulateApiResponse, "timer" while the setTimeout of the auto login is  *)
(* pending, "redirect" while that of the redirect is.  page.users is the   *)
(* item cloudstorage_users of localStorage, which outlives the page.       *)

\* What the fetch of apiFetch ends with: a rejection, or a response.
NoReply == [kind |-> "none", status |-> 0, error |-> ""]
Rejected == [kind |-> "rejected", status |-> 0, error |-> "Failed to fetch"]
HtmlReply(status) == [kind |-> "html", status |-> status, error |-> ""]
TextReply(status) == [kind |-> "text", status |-> status, error |-> ""]
JsonReply(status, error) == [kind |-> "json", status |-> status, error |-> error]

\* response.ok
Ok(status) == status >= 200 /\ status <= 299

\* apiFetch: {success: true, data} for a JSON response that is ok, and
\* {success: false, error} for everything it catches.
ApiFetch(reply) ==
    IF reply.kind = "rejected" THEN [success |-> FALSE, error |-> reply.error]
    ELSE IF reply.kind = "html"
    THEN [success |-> FALSE,
          error |-> "Server returned HTML instead of JSON: " \o ToString(reply.status)]
    ELSE IF reply.kind = "text"
    THEN [success |-> FALSE,
          error |-> "Server returned non-JSON response: " \o ToString(reply.status)]
    ELSE IF ~Ok(reply.status)
    THEN [success |-> FALSE,
          error |-> IF reply.error # "" THEN reply.error
                    ELSE "Server error: " \o ToString(reply.status)]
    ELSE [success |-> TRUE, error |-> ""]

\* Map.prototype.set, and the assignment users[storageId] = ... of the page.
Put(map, key, value) ==
    [k \in DOMAIN map \cup {key} |-> IF k = key THEN value ELSE map[k]]

\* btoa(password)
Btoa(password) == "base64(" \o password \o ")"

\* simulateApiResponse: [success, error, users], users being the item of
\* localStorage as the call leaves it.
SimulateApiResponse(action, storageId, password, localUsers, t) ==
    IF action = "create"
    THEN IF storageId \in DOMAIN localUsers
         THEN [success |-> FALSE, error |-> "Storage ID already exists",
               users |-> localUsers]
         ELSE [success |-> TRUE, error |-> "",
               users |-> Put(localUsers, storageId,
                             [password |-> Btoa(password), createdAt |-> t])]
    ELSE IF storageId \notin DOMAIN localUsers
              \/ localUsers[storageId].password # Btoa(password)
         THEN [success |-> FALSE, error |-> "Invalid storage ID or password",
               users |-> localUsers]
         ELSE [success |-> TRUE, error |-> "", users |-> localUsers]

\* showToast(message, type)
Toast(message, type) == [message |-> message, type |-> type]
NoToast == Toast("", "")

\* The cookie jar of the browser for the origin: no cookie named token.
NoCookie == [token |-> NoToken, httpOnly |-> FALSE]

\* The page on load, over the localStorage it finds; a browser that has not
\* logged in holds no cookie.
LoadedPage(localUsers, currentUser) ==
    [pc |-> "idle", action |-> "", storageId |-> "", password |-> "",
     reply |-> NoReply, simulated |-> FALSE, toast |-> NoToast,
     users |-> localUsers, currentUser |-> currentUser, location |-> "/",
     cookie |-> NoCookie]

\* The page before anything is submitted, over an empty localStorage.
IdlePage == LoadedPage(<< >>, "")

\* The responses of /api/auth the page can get, and what fetch can end with
\* when no handler answers.
Replies ==
    {Rejected, HtmlReply(404), TextReply(502),
     JsonReply(200, ""),
     JsonReply(400, "Storage ID and password are required"),
     JsonReply(401, "Invalid storage ID or password"),
     JsonReply(409, "Storage ID already exists"),
     JsonReply(429, "Too many requests. Please try again later."),
     JsonReply(500, "")}

----------------------------------------------------------------------------
(* The slots of reqs. *)

IdleSlot ==
    [pc |-> "idle", handler |-> "", req |-> NoRequest, resp |-> NoResponse,
     userStorage |-> EmptyDoc, pending |-> Respond(NoResponse, EmptyDoc)]

\* A slot is free once the response of its last request has been delivered.
Free(r) == reqs[r].pc = "idle"

\* The slot when the handler has answered: userStorage is the object the handler
\* started from.
Answered(handler, req, userStorage, resp) ==
    [IdleSlot EXCEPT !.pc = "done", !.handler = handler, !.req = req,
                     !.userStorage = userStorage, !.resp = resp]

\* The response reaches the client and the slot is free again.
Release(r) ==
    /\ reqs[r].pc = "done"
    /\ reqs' = [reqs EXCEPT ![r] = IdleSlot]
    /\ UNCHANGED <<now, storageData, users, bins, rateLimitMap, authRateLimitMap, page>>

Tick ==
    /\ now < StartTime + MaxTicks
    /\ now' = now + 1
    /\ UNCHANGED <<storageData, users, bins, rateLimitMap, authRateLimitMap, reqs, page>>


----------------------------------------------------------------------------
(* The storage handler, in-memory form (src/api/jsonbin.js, second         *)
(* handler).  Nothing in it awaits after the cookie is read, so a request  *)
(* is one step.                                                            *)

\* The object a storage id gets on its first request.
InitialStorage == FlatDoc(<< >>, <<RootFolder>>)

\* A variant that takes the storage id from the body when the body names one.
StoreMemHandlerByBody(req, sd, rl, t) ==
    LET gate == StoreGate(req)
        lim == IsRateLimited(rl, ClientIP(req), t, STORE_RATE_LIMIT)
        storageId == IF req.storageId # "" THEN req.storageId ELSE req.cookie.storageId
        userStorage == IF storageId \in DOMAIN sd THEN sd[storageId] ELSE InitialStorage
        o == Dispatch(userStorage, req, t)
    IN  IF gate.status # 0
        THEN [resp |-> gate, us |-> EmptyDoc, sd |-> sd, rl |-> rl]
        ELSE IF lim.limited
        THEN [resp |-> ErrorResponse(429, "Too many requests. Please try again later."),
              us |-> EmptyDoc, sd |-> sd, rl |-> lim.map]
        ELSE [resp |-> o.resp, us |-> userStorage, sd |-> Put(sd, storageId, o.us),
              rl |-> lim.map]

\* [resp, us, sd, rl]: the response, the object the handler started from, and
\* storageData and rateLimitMap afterwards.
StoreMemHandler(req, sd, rl, t) ==
    LET gate == StoreGate(req)
        lim == IsRateLimited(rl, ClientIP(req), t, STORE_RATE_LIMIT)
        storageId == req.cookie.storageId
        userStorage == IF storageId \in DOMAIN sd THEN sd[storageId] ELSE InitialStorage
        o == Dispatch(userStorage, req, t)
    IN  IF gate.status # 0
        THEN [resp |-> gate, us |-> EmptyDoc, sd |-> sd, rl |-> rl]
        ELSE IF lim.limited
        THEN [resp |-> ErrorResponse(429, "Too many requests. Please try again later."),
              us |-> EmptyDoc, sd |-> sd, rl |-> lim.map]
        ELSE [resp |-> o.resp, us |-> userStorage, sd |-> Put(sd, storageId, o.us),
              rl |-> lim.map]

\* The requests the model sends to the storage handler.
StoreBase(storageId) ==
    [NoRequest EXCEPT !.method = "POST", !.hasBody = TRUE, !.csrf = "write",
                      !.cookie = JwtSign(storageId), !.remoteAddress = FreshIP]

TimeIds == {IdOf(t) : t \in Times}

StoreActionRequests(storageId) ==
    LET b == StoreBase(storageId)
    IN  {[b EXCEPT !.action = "getStorage", !.csrf = "read"],
         [b EXCEPT !.action = "purge"]}
        \cup {[b EXCEPT !.action = "updateStorage", !.data = d] :
                d \in {NoData, DocData(EmptyDoc), DocData(FlatDoc(<< >>, << >>)),
                       DocData(InitialStorage)}}
        \cup {[b EXCEPT !.action = "addFile", !.data = FileData("a.txt", "QQ=="),
                        !.folderId = f] : f \in {""} \cup TimeIds}
        \cup {[b EXCEPT !.action = "addFolder", !.data = FolderData("docs"),
                        !.folderId = f] : f \in {""} \cup TimeIds}
        \cup {[b EXCEPT !.action = "addFile"],
              [b EXCEPT !.action = "addFolder"],
              [b EXCEPT !.action = "addFolder", !.data = FolderData("")]}
        \cup {[b EXCEPT !.action = "renameItem", !.itemType = k, !.fileId = i,
                        !.newName = "new"] : k \in {"file", "folder"}, i \in TimeIds}
        \cup {[b EXCEPT !.action = "renameItem", !.itemType = "file", !.fileId = "root"],
              [b EXCEPT !.action = "renameItem", !.itemType = "link", !.fileId = "root",
                        !.newName = "new"]}
        \cup {[b EXCEPT !.action = "deleteItem", !.csrf = "delete", !.itemType = "file",
                        !.fileId = i] : i \in {""} \cup TimeIds}
        \cup {[b EXCEPT !.action = "deleteItem", !.csrf = "delete", !.itemType = "folder",
                        !.fileId = i] : i \in {"root"} \cup TimeIds}
        \cup {[b EXCEPT !.action = "deleteItem", !.csrf = "delete", !.fileId = "root"],
              [b EXCEPT !.action = "deleteItem", !.csrf = "delete", !.itemType = "link",
                        !.fileId = "root"]}

\* The second storage id is there to be left alone: it gets two kinds of request.
StoreOtherRequests(storageId) ==
    LET b == StoreBase(storageId)
    IN  {[b EXCEPT !.action = "addFile", !.data = FileData("b.txt", "Qg==")],
         [b EXCEPT !.action = "getStorage", !.csrf = "read"]}

\* A request that would delete the root folder, sent the wrong way; and the
\* requests with another method, which carry no body.
StoreRefusedRequests(storageId) ==
    LET b == [StoreBase(storageId) EXCEPT !.action = "deleteItem", !.csrf = "delete",
                                          !.itemType = "folder", !.fileId = "root"]
        n == [NoRequest EXCEPT !.cookie = JwtSign(storageId), !.remoteAddress = FreshIP]
    IN  {[n EXCEPT !.method = "OPTIONS"], [n EXCEPT !.method = "GET"],
         [b EXCEPT !.cookie = NoToken], [b EXCEPT !.cookie = ForgedToken(storageId)],
         [b EXCEPT !.csrf = ""], [b EXCEPT !.csrf = "create"],
         [b EXCEPT !.hasBody = FALSE],
         [b EXCEPT !.remoteAddress = BusyIP],
         [b EXCEPT !.forwardedFor = BusyIP]}

StoreMemRequests == StoreActionRequests("alice")

StoreMemRequest(r, req) ==
    /\ Free(r)
    /\ MayArrive(rateLimitMap, ClientIP(req), STORE_RATE_LIMIT)
    /\ LET h == StoreMemHandler(req, storageData, rateLimitMap, now)
       IN  /\ reqs' = [reqs EXCEPT ![r] = Answered("storage", req, h.us, h.resp)]
           /\ storageData' = h.sd
           /\ rateLimitMap' = h.rl
    /\ UNCHANGED <<now, users, bins, authRateLimitMap, page>>

InitCommon ==
    /\ now = StartTime
    /\ storageData = << >>
    /\ users = << >>
    /\ bins = << >>
    /\ rateLimitMap = << >>
    /\ authRateLimitMap = << >>
    /\ reqs = [r \in Slots |-> IdleSlot]
    /\ page = IdlePage

InitStoreMem == InitCommon

NextStoreMem ==
    \/ Tick
    \/ \E req \in StoreMemRequests : StoreMemRequest("r1", req)
    \/ Release("r1")

SpecStoreMem == InitStoreMem /\ [][NextStoreMem]_vars

----------------------------------------------------------------------------
(* The external document store, as the handlers use it: one document per   *)
(* storage id, read with GET and replaced with PUT.  A call may fail for   *)
(* reasons of its own (the network, the service); a failed PUT writes      *)
(* nothing.                                                                *)

\* bcrypt.hash and bcrypt.compare.
BcryptHash(password) == "$2a$10$" \o password
BcryptCompare(password, hash) == hash = BcryptHash(password)

\* getStorageFromJSONBin: the document, or null on a 404 and on any failure.
GetStorageFromJSONBin(b, storageId) ==
    {[found |-> FALSE, doc |-> EmptyDoc]}
        \cup (IF storageId \in DOMAIN b
              THEN {[found |-> TRUE, doc |-> b[storageId]]}
              ELSE {})

\* A variant that merges the files already stored into the document written.
SaveStorageMerging(b, storageId, data) ==
    {[ok |-> FALSE, bins |-> b]}
        \cup (IF storageId \in DOMAIN b
              THEN {[ok |-> TRUE,
                     bins |-> Put(b, storageId,
                                  [data EXCEPT !.files =
                                      SelectSeq(b[storageId].files,
                                                LAMBDA f : ~\E i \in DOMAIN data.files :
                                                              data.files[i] = f)
                                          \o data.files])]}
              ELSE {})

\* A variant whose failed PUT has written the document all the same.
SaveStorageLeavingTrace(b, storageId, data) ==
    IF storageId \in DOMAIN b
    THEN {[ok |-> FALSE, bins |-> Put(b, storageId, data)],
          [ok |-> TRUE, bins |-> Put(b, storageId, data)]}
    ELSE {[ok |-> FALSE, bins |-> b]}

\* saveStorageToJSONBin of the storage handler: a PUT of the whole document.
SaveStorageToJSONBin(b, storageId, data) ==
    {[ok |-> FALSE, bins |-> b]}
        \cup (IF storageId \in DOMAIN b
              THEN {[ok |-> TRUE, bins |-> Put(b, storageId, data)]}
              ELSE {})

----------------------------------------------------------------------------
(* The storage handler, JSONBin-backed form (src/unnamed/part_001).  It    *)
(* awaits the GET of the document and, for an action that changes the      *)
(* document, the PUT; other requests run in between.                       *)

\* A variant that counts the request before it looks at the cookie.
StoreBinBeginCountFirst(req, rl, t) ==
    LET gate == StoreGate(req)
        lim == IsRateLimited(rl, ClientIP(req), t, STORE_RATE_LIMIT)
    IN  IF req.method # "POST"
        THEN [pc |-> "done", resp |-> gate, rl |-> rl]
        ELSE IF lim.limited
        THEN [pc |-> "done", rl |-> lim.map,
              resp |-> ErrorResponse(429, "Too many requests. Please try again later.")]
        ELSE IF gate.status # 0
        THEN [pc |-> "done", resp |-> gate, rl |-> lim.map]
        ELSE [pc |-> "get", resp |-> NoResponse, rl |-> lim.map]

\* A variant that counts the request under the storage id of its token.
StoreBinBeginById(req, rl, t) ==
    LET gate == StoreGate(req)
        lim == IsRateLimited(rl, req.cookie.storageId, t, STORE_RATE_LIMIT)
    IN  IF gate.status # 0
        THEN [pc |-> "done", resp |-> gate, rl |-> rl]
        ELSE IF lim.limited
        THEN [pc |-> "done", rl |-> lim.map,
              resp |-> ErrorResponse(429, "Too many requests. Please try again later.")]
        ELSE [pc |-> "get", resp |-> NoResponse, rl |-> lim.map]

\* From the start of the handler to the await of getStorageFromJSONBin.
StoreBinBegin(req, rl, t) ==
    LET gate == StoreGate(req)
        lim == IsRateLimited(rl, ClientIP(req), t, STORE_RATE_LIMIT)
    IN  IF gate.status # 0
        THEN [pc |-> "done", resp |-> gate, rl |-> rl]
        ELSE IF lim.limited
        THEN [pc |-> "done", rl |-> lim.map,
              resp |-> ErrorResponse(429, "Too many requests. Please try again later.")]
        ELSE [pc |-> "get", resp |-> NoResponse, rl |-> lim.map]

StoreBinStart(r, req) ==
    /\ Free(r)
    /\ MayArrive(rateLimitMap, ClientIP(req), STORE_RATE_LIMIT)
    /\ LET b == StoreBinBegin(req, rateLimitMap, now)
       IN  /\ reqs' = [reqs EXCEPT ![r] =
                         [IdleSlot EXCEPT !.pc = b.pc, !.handler = "storage",
                                          !.req = req, !.resp = b.resp]]
           /\ rateLimitMap' = b.rl
    /\ UNCHANGED <<now, storageData, users, bins, authRateLimitMap, page>>

\* The GET has come back: the action runs on the document up to its save.
StoreBinGot(r) ==
    /\ reqs[r].pc = "get" /\ reqs[r].handler = "storage"
    /\ \E got \in GetStorageFromJSONBin(bins, reqs[r].req.cookie.storageId) :
          LET o == Dispatch(got.doc, reqs[r].req, now)
          IN  reqs' = [reqs EXCEPT ![r] =
                  IF ~got.found
                  THEN [@ EXCEPT !.pc = "done",
                                 !.resp = ErrorResponse(404, "Storage not found")]
                  ELSE [@ EXCEPT !.pc = IF o.kind = "save" THEN "put" ELSE "done",
                                 !.userStorage = got.doc,
                                 !.pending = o,
                                 !.resp = IF o.kind = "save" THEN NoResponse ELSE o.resp]]
    /\ UNCHANGED <<now, storageData, users, bins, rateLimitMap, authRateLimitMap, page>>

\* The PUT has come back.
StoreBinPut(r) ==
    /\ reqs[r].pc = "put" /\ reqs[r].handler = "storage"
    /\ \E put \in SaveStorageToJSONBin(bins, reqs[r].req.cookie.storageId,
                                      reqs[r].pending.us) :
          /\ bins' = put.bins
          /\ reqs' = [reqs EXCEPT ![r] =
                  [@ EXCEPT !.pc = "done",
                            !.resp = IF put.ok THEN reqs[r].pending.resp
                                     ELSE ErrorResponse(500, reqs[r].pending.fail)]]
    /\ UNCHANGED <<now, storageData, users, rateLimitMap, authRateLimitMap, page>>

\* The user record the auth handler writes for a new storage id.
NewUserData(password, t) ==
    UserDoc(BcryptHash(password), t, [files |-> << >>, folders |-> <<RootFolder>>])

StoreBinRequests ==
    LET b == StoreBase("alice")
    IN  {[b EXCEPT !.action = "getStorage", !.csrf = "read"],
         [b EXCEPT !.action = "purge"],
         [b EXCEPT !.action = "updateStorage"],
         [b EXCEPT !.action = "updateStorage", !.data = DocData(InitialStorage)],
         [b EXCEPT !.action = "addFile", !.data = FileData("a.txt", "QQ==")],
         [b EXCEPT !.action = "addFolder", !.data = FolderData("docs")],
         [b EXCEPT !.action = "renameItem", !.itemType = "folder", !.fileId = "root",
                   !.newName = "new"],
         [b EXCEPT !.action = "renameItem", !.itemType = "file", !.fileId = "root",
                   !.newName = "new"],
         [b EXCEPT !.action = "deleteItem", !.csrf = "delete", !.itemType = "folder",
                   !.fileId = "root"]}
        \cup (StoreRefusedRequests("alice")
                \ {q \in StoreRefusedRequests("alice") : ClientIP(q) = BusyIP})

\* The store holds the record of a storage id created through the auth handler.
InitStoreBin ==
    /\ now = StartTime
    /\ storageData = << >>
    /\ users = << >>
    /\ bins = [s \in {"alice"} |-> NewUserData("pw1", StartTime)]
    /\ rateLimitMap = << >>
    /\ authRateLimitMap = << >>
    /\ reqs = [r \in Slots |-> IdleSlot]
    /\ page = IdlePage

NextStoreBin ==
    \/ Tick
    \/ \E r \in Slots :
          \/ \E req \in StoreBinRequests : StoreBinStart(r, req)
          \/ StoreBinGot(r)
          \/ StoreBinPut(r)
          \/ Release(r)

SpecStoreBin == InitStoreBin /\ [][NextStoreBin]_vars

----------------------------------------------------------------------------
(* The auth handler.  Both forms (src/api/auth.js, first and second        *)
(* handler) run the same code up to the branch on the action; they differ  *)
(* in the name of the CSRF header, in the text of its error, and in where  *)
(* the user record lives.                                                  *)

\* JSON.stringify(deviceFingerprint) inside the template literal of the key:
\* the object as JSON text, and the word undefined when the body has none.
Stringify(deviceFingerprint) ==
    IF deviceFingerprint = "" THEN "undefined"
    ELSE "{\"platform\":\"" \o deviceFingerprint \o "\"}"

\* `${ip}:${JSON.stringify(deviceFingerprint)}`
AuthKey(ip, deviceFingerprint) == ip \o ":" \o Stringify(deviceFingerprint)

\* Method, body and CSRF header.  The body is destructured before the header
\* is looked at, so a request without a body is a 500 whatever its header.
AuthGate(req, csrfError) ==
    IF req.method = "OPTIONS" THEN EndResponse(200)
    ELSE IF req.method # "POST" THEN ErrorResponse(405, "Method not allowed")
    ELSE IF ~req.hasBody THEN ErrorResponse(500, "Internal server error")
    ELSE IF req.csrf \notin {"create", "login", "verify"}
    THEN ErrorResponse(401, csrfError)
    ELSE NoResponse

\* From the start of the handler to the first use of the user record: pc is
\* "done" with the response, or the action that goes on.
AuthBegin(req, rl, t, csrfError) ==
    LET gate == AuthGate(req, csrfError)
        lim == IsRateLimited(rl, AuthKey(ClientIP(req), req.deviceFingerprint), t,
                             AUTH_RATE_LIMIT)
        Done(resp) == [pc |-> "done", resp |-> resp, rl |-> lim.map]
    IN  IF gate.status # 0
        THEN [pc |-> "done", resp |-> gate, rl |-> rl]
        ELSE IF lim.limited
        THEN Done(ErrorResponse(429, "Too many requests. Please try again later."))
        ELSE IF req.action \in {"create", "login"}
        THEN IF req.storageId = "" \/ req.password = ""
             THEN Done(ErrorResponse(400, "Storage ID and password are required"))
             ELSE [pc |-> req.action, resp |-> NoResponse, rl |-> lim.map]
        ELSE IF req.action = "verify"
        THEN IF ~req.cookie.present
             THEN Done(ErrorResponse(401, "Not authenticated"))
             ELSE IF ~JwtVerify(req.cookie)
             THEN Done(ErrorResponse(401, "Invalid token"))
             ELSE [pc |-> "verify", resp |-> NoResponse, rl |-> lim.map]
        ELSE Done(ErrorResponse(400, "Invalid action"))

\* res.setHeader('Set-Cookie', ...) with a fresh token, then the 200.
WithCookie(message, storageId) ==
    [Response(200, "", message) EXCEPT !.cookie = JwtSign(storageId)]

\* The end of action create.
CreateResult(req) == WithCookie("Storage created successfully", req.storageId)

\* A variant that sets the cookie before it compares the password.
LoginResultCookieFirst(req, userData) ==
    IF "password" \notin userData.has
    THEN ErrorResponse(500, "Internal server error")
    ELSE IF ~BcryptCompare(req.password, userData.password)
    THEN [ErrorResponse(401, "Invalid storage ID or password")
             EXCEPT !.cookie = JwtSign(req.storageId)]
    ELSE WithCookie("Login successful", req.storageId)

\* Action login from bcrypt.compare on; compare rejects a record without a
\* password and the outer catch answers.
LoginResult(req, userData) ==
    IF "password" \notin userData.has
    THEN ErrorResponse(500, "Internal server error")
    ELSE IF ~BcryptCompare(req.password, userData.password)
    THEN ErrorResponse(401, "Invalid storage ID or password")
    ELSE WithCookie("Login successful", req.storageId)

\* Action verify once the token is verified.
VerifyResult(req, exists) ==
    IF ~exists THEN ErrorResponse(401, "Storage not found")
    ELSE [Response(200, "", "Authenticated") EXCEPT !.storageId = req.cookie.storageId]

AuthBase ==
    [NoRequest EXCEPT !.method = "POST", !.hasBody = TRUE, !.remoteAddress = FreshIP,
                      !.deviceFingerprint = "Linux"]

AuthCall(action, storageId, password) ==
    [AuthBase EXCEPT !.action = action, !.csrf = action, !.storageId = storageId,
                     !.password = password]

\* The requests of the login page, and those a client can send besides.
AuthActionRequests ==
    {AuthCall(a, "alice", p) : a \in {"create", "login"}, p \in Passwords}
        \cup {AuthCall("login", "alice", ""),
              [AuthCall("verify", "", "") EXCEPT !.cookie = JwtSign("alice")],
              [AuthCall("verify", "", "") EXCEPT !.cookie = ForgedToken("alice")],
              AuthCall("verify", "", ""),
              [AuthCall("reset", "alice", "pw1") EXCEPT !.csrf = "login"]}

AuthRefusedRequests ==
    {[NoRequest EXCEPT !.method = "OPTIONS", !.remoteAddress = FreshIP],
     [NoRequest EXCEPT !.method = "GET", !.remoteAddress = FreshIP],
     [AuthCall("create", "alice", "pw1") EXCEPT !.csrf = ""],
     [AuthCall("login", "alice", "pw1") EXCEPT !.csrf = "write"],
     [AuthBase EXCEPT !.hasBody = FALSE, !.csrf = "login", !.deviceFingerprint = ""]}

----------------------------------------------------------------------------
(* The auth handler, in-memory form (src/api/auth.js, second handler):     *)
(* the records live in the Map users.  The handler awaits bcrypt.hash and  *)
(* bcrypt.compare; other requests run in between.                          *)

\* The record users.set stores.
NewUser(password, t) ==
    UserDoc(BcryptHash(password), t, [files |-> << >>, folders |-> << >>])

AuthMemStart(r, req) ==
    /\ Free(r)
    /\ MayArrive(authRateLimitMap, AuthKey(ClientIP(req), req.deviceFingerprint),
                 AUTH_RATE_LIMIT)
    /\ LET b == AuthBegin(req, authRateLimitMap, now, "Invalid request")
           has == req.storageId \in DOMAIN users
           slot == [IdleSlot EXCEPT !.handler = "auth", !.req = req]
           Done(resp) == [slot EXCEPT !.pc = "done", !.resp = resp]
       IN  /\ authRateLimitMap' = b.rl
           /\ reqs' = [reqs EXCEPT ![r] =
                 IF b.pc = "done" THEN Done(b.resp)
                 ELSE IF b.pc = "create"
                 THEN IF has THEN Done(ErrorResponse(409, "Storage ID already exists"))
                      ELSE [slot EXCEPT !.pc = "hash"]
                 ELSE IF b.pc = "login"
                 THEN IF ~has THEN Done(ErrorResponse(401, "Invalid storage ID or password"))
                      ELSE [slot EXCEPT !.pc = "compare",
                                        !.userStorage = users[req.storageId]]
                 ELSE Done(VerifyResult(req, req.cookie.storageId \in DOMAIN users))]
    /\ UNCHANGED <<now, storageData, users, bins, rateLimitMap, page>>

\* bcrypt.hash has come back: users.set, the cookie, the 200.
AuthMemHashed(r) ==
    /\ reqs[r].pc = "hash" /\ reqs[r].handler = "auth"
    /\ users' = Put(users, reqs[r].req.storageId, NewUser(reqs[r].req.password, now))
    /\ reqs' = [reqs EXCEPT ![r] = [@ EXCEPT !.pc = "done",
                                             !.resp = CreateResult(reqs[r].req)]]
    /\ UNCHANGED <<now, storageData, bins, rateLimitMap, authRateLimitMap, page>>

\* bcrypt.compare has come back.
AuthMemCompared(r) ==
    /\ reqs[r].pc = "compare" /\ reqs[r].handler = "auth"
    /\ reqs' = [reqs EXCEPT ![r] =
                  [@ EXCEPT !.pc = "done",
                            !.resp = LoginResult(reqs[r].req, reqs[r].userStorage)]]
    /\ UNCHANGED <<now, storageData, users, bins, rateLimitMap, authRateLimitMap, page>>

AuthMemRequests == AuthActionRequests \cup AuthRefusedRequests

InitAuthMem == InitCommon

NextAuthMem ==
    \/ Tick
    \/ \E r \in Slots :
          \/ \E req \in AuthMemRequests : AuthMemStart(r, req)
          \/ AuthMemHashed(r)
          \/ AuthMemCompared(r)
          \/ Release(r)

SpecAuthMem == InitAuthMem /\ [][NextAuthMem]_vars

----------------------------------------------------------------------------
(* The auth handler, JSONBin-backed form (src/api/auth.js, first handler): *)
(* the records live in the external store.  The handler awaits the GET,    *)
(* bcrypt, and the POST and PUT of saveStorageToJSONBin.                   *)

\* The POST of saveStorageToJSONBin, which creates the document of a storage id:
\* the store accepts it when it holds none for that id; the response may be
\* not-ok, and fetch may reject, for reasons of the store's own.
CreateBin(b, storageId, data) ==
    {[result |-> "not ok", bins |-> b], [result |-> "threw", bins |-> b]}
        \cup (IF storageId \notin DOMAIN b
              THEN {[result |-> "ok", bins |-> Put(b, storageId, data)]}
              ELSE {})

AuthBinStart(r, req) ==
    /\ Free(r)
    /\ MayArrive(authRateLimitMap, AuthKey(ClientIP(req), req.deviceFingerprint),
                 AUTH_RATE_LIMIT)
    /\ LET b == AuthBegin(req, authRateLimitMap, now, "Invalid CSRF token")
       IN  /\ authRateLimitMap' = b.rl
           /\ reqs' = [reqs EXCEPT ![r] =
                 [IdleSlot EXCEPT !.pc = IF b.pc = "done" THEN "done" ELSE "get",
                                  !.handler = "auth", !.req = req, !.resp = b.resp]]
    /\ UNCHANGED <<now, storageData, users, bins, rateLimitMap, page>>

\* getStorageFromJSONBin has come back.
AuthBinGot(r) ==
    /\ reqs[r].pc = "get" /\ reqs[r].handler = "auth"
    /\ LET req == reqs[r].req
           storageId == IF req.action = "verify" THEN req.cookie.storageId
                        ELSE req.storageId
           Done(slot, resp) == [slot EXCEPT !.pc = "done", !.resp = resp]
       IN  \E got \in GetStorageFromJSONBin(bins, storageId) :
              reqs' = [reqs EXCEPT ![r] =
                 IF req.action = "create"
                 THEN IF got.found
                      THEN Done(@, ErrorResponse(409, "Storage ID already exists"))
                      ELSE [@ EXCEPT !.pc = "hash"]
                 ELSE IF req.action = "login"
                 THEN IF ~got.found
                      THEN Done(@, ErrorResponse(401, "Invalid storage ID or password"))
                      ELSE [@ EXCEPT !.pc = "compare", !.userStorage = got.doc]
                 ELSE Done(@, VerifyResult(req, got.found))]
    /\ UNCHANGED <<now, storageData, users, bins, rateLimitMap, authRateLimitMap, page>>

\* bcrypt.hash has come back: userData is built and the POST is sent.
AuthBinHashed(r) ==
    /\ reqs[r].pc = "hash" /\ reqs[r].handler = "auth"
    /\ reqs' = [reqs EXCEPT ![r] =
                  [@ EXCEPT !.pc = "post",
                            !.pending = Outcome("save", CreateResult(reqs[r].req),
                                                "Failed to create storage",
                                                NewUserData(reqs[r].req.password, now))]]
    /\ UNCHANGED <<now, storageData, users, bins, rateLimitMap, authRateLimitMap, page>>

\* The POST has come back: done when ok, the PUT when not, false when it threw.
AuthBinPosted(r) ==
    /\ reqs[r].pc = "post" /\ reqs[r].handler = "auth"
    /\ \E post \in CreateBin(bins, reqs[r].req.storageId, reqs[r].pending.us) :
          /\ bins' = post.bins
          /\ reqs' = [reqs EXCEPT ![r] =
                IF post.result = "ok"
                THEN [@ EXCEPT !.pc = "done", !.resp = reqs[r].pending.resp]
                ELSE IF post.result = "not ok"
                THEN [@ EXCEPT !.pc = "put"]
                ELSE [@ EXCEPT !.pc = "done",
                               !.resp = ErrorResponse(500, reqs[r].pending.fail)]]
    /\ UNCHANGED <<now, storageData, users, rateLimitMap, authRateLimitMap, page>>

\* The PUT has come back.
AuthBinPut(r) ==
    /\ reqs[r].pc = "put" /\ reqs[r].handler = "auth"
    /\ \E put \in SaveStorageToJSONBin(bins, reqs[r].req.storageId, reqs[r].pending.us) :
          /\ bins' = put.bins
          /\ reqs' = [reqs EXCEPT ![r] =
                  [@ EXCEPT !.pc = "done",
                            !.resp = IF put.ok THEN reqs[r].pending.resp
                                     ELSE ErrorResponse(500, reqs[r].pending.fail)]]
    /\ UNCHANGED <<now, storageData, users, rateLimitMap, authRateLimitMap, page>>

\* bcrypt.compare has come back.
AuthBinCompared(r) ==
    /\ reqs[r].pc = "compare" /\ reqs[r].handler = "auth"
    /\ reqs' = [reqs EXCEPT ![r] =
                  [@ EXCEPT !.pc = "done",
                            !.resp = LoginResult(reqs[r].req, reqs[r].userStorage)]]
    /\ UNCHANGED <<now, storageData, users, bins, rateLimitMap, authRateLimitMap, page>>

AuthBinRequests == AuthActionRequests \cup AuthRefusedRequests

InitAuthBin == InitCommon

NextAuthBin ==
    \/ Tick
    \/ \E r \in Slots :
          \/ \E req \in AuthBinRequests : AuthBinStart(r, req)
          \/ AuthBinGot(r)
          \/ AuthBinHashed(r)
          \/ AuthBinPosted(r)
          \/ AuthBinPut(r)
          \/ AuthBinCompared(r)
          \/ Release(r)

SpecAuthBin == InitAuthBin /\ [][NextAuthBin]_vars

----------------------------------------------------------------------------
(* Both JSONBin-backed handlers on one store: the auth handler creates the *)
(* record the storage handler works on.  One client address has used up    *)
(* all but one of its requests of the hour with each handler.              *)

BusyKey == AuthKey(BusyIP, "Linux")

BinAuthRequests ==
    AuthBinRequests \cup {[AuthCall("login", "alice", "pw1") EXCEPT !.remoteAddress = BusyIP]}

BinStoreRequests ==
    LET b == StoreBase("alice")
    IN  {[b EXCEPT !.action = "getStorage", !.csrf = "read"],
         [b EXCEPT !.action = "purge"],
         [b EXCEPT !.action = "updateStorage", !.data = DocData(InitialStorage)],
         [b EXCEPT !.action = "addFolder", !.data = FolderData("docs")]}
        \cup StoreRefusedRequests("alice")

InitBin ==
    /\ now = StartTime
    /\ storageData = << >>
    /\ users = << >>
    /\ bins = << >>
    /\ rateLimitMap = [k \in {BusyIP} |-> Earlier(STORE_RATE_LIMIT - 1)]
    /\ authRateLimitMap = [k \in {BusyKey} |-> Earlier(AUTH_RATE_LIMIT - 1)]
    /\ reqs = [r \in Slots |-> IdleSlot]
    /\ page = IdlePage

\* One request at a time, all in the millisecond StartTime: what a request is
\* answered depends on the store and on the number of timestamps its key has
\* in the hour, which neither requests in flight nor the clock of the model
\* change.
NextBin ==
    \/ \E req \in BinAuthRequests : AuthBinStart("r1", req)
    \/ AuthBinGot("r1")
    \/ AuthBinHashed("r1")
    \/ AuthBinPosted("r1")
    \/ AuthBinPut("r1")
    \/ AuthBinCompared("r1")
    \/ \E req \in BinStoreRequests : StoreBinStart("r1", req)
    \/ StoreBinGot("r1")
    \/ StoreBinPut("r1")
    \/ Release("r1")

SpecBin == InitBin /\ [][NextBin]_vars

----------------------------------------------------------------------------
(* The rate limiter over hours.  The clock of these specifications moves   *)
(* by a millisecond or by a millisecond less than the window, so that a    *)
(* timestamp is met right before and right when it leaves the window.      *)

\* Date.now() between two requests: MaxTicks single milliseconds and MaxHours
\* long steps at most.
Elapse ==
    /\ \/ /\ (now - StartTime) % (RATE_WINDOW - 1) < MaxTicks
          /\ now' = now + 1
       \/ /\ (now - StartTime) \div (RATE_WINDOW - 1) < MaxHours
          /\ now' = now + (RATE_WINDOW - 1)
    /\ UNCHANGED <<storageData, users, bins, rateLimitMap, authRateLimitMap, reqs, page>>

\* Logins from the address near its limit, under two fingerprints, and a
\* request the handler refuses before it counts.
RateAuthRequests ==
    {[AuthCall("login", "alice", "pw1") EXCEPT !.remoteAddress = BusyIP],
     [AuthCall("login", "alice", "pw2") EXCEPT !.remoteAddress = BusyIP,
                                              !.deviceFingerprint = "Mac"],
     [AuthCall("login", "alice", "pw1") EXCEPT !.remoteAddress = BusyIP, !.csrf = ""],
     [NoRequest EXCEPT !.method = "GET", !.remoteAddress = BusyIP]}

InitRateAuth ==
    /\ now = StartTime
    /\ storageData = << >>
    /\ users = << >>
    /\ bins = [s \in {"alice"} |-> NewUserData("pw1", StartTime)]
    /\ rateLimitMap = << >>
    /\ authRateLimitMap = [k \in {BusyKey} |-> Earlier(AUTH_RATE_LIMIT - 1)]
    /\ reqs = [r \in Slots |-> IdleSlot]
    /\ page = IdlePage

NextRateAuth ==
    \/ Elapse
    \/ \E req \in RateAuthRequests : AuthBinStart("r1", req)
    \/ AuthBinGot("r1")
    \/ AuthBinCompared("r1")
    \/ Release("r1")

SpecRateAuth == InitRateAuth /\ [][NextRateAuth]_vars

\* Storage requests of two storage ids from the address near its limit, one of
\* them through a proxy, and a request the handler refuses before it counts.
RateStoreRequests ==
    LET a == [StoreBase("alice") EXCEPT !.remoteAddress = BusyIP]
        b == [StoreBase("bob") EXCEPT !.forwardedFor = BusyIP]
    IN  {[a EXCEPT !.action = "getStorage", !.csrf = "read"],
         [a EXCEPT !.action = "updateStorage", !.data = DocData(InitialStorage)],
         [b EXCEPT !.action = "addFolder", !.data = FolderData("docs")],
         [a EXCEPT !.cookie = NoToken]}

InitRateStore ==
    /\ now = StartTime
    /\ storageData = << >>
    /\ users = << >>
    /\ bins = [s \in {"alice"} |-> NewUserData("pw1", StartTime)]
    /\ rateLimitMap = [k \in {BusyIP} |-> Earlier(STORE_RATE_LIMIT - 1)]
    /\ authRateLimitMap = << >>
    /\ reqs = [r \in Slots |-> IdleSlot]
    /\ page = IdlePage

NextRateStore ==
    \/ Elapse
    \/ \E req \in RateStoreRequests : StoreBinStart("r1", req)
    \/ StoreBinGot("r1")
    \/ StoreBinPut("r1")
    \/ Release("r1")

SpecRateStore == InitRateStore /\ [][NextRateStore]_vars

----------------------------------------------------------------------------
(* Both JSONBin-backed handlers under every pairing of an action with a    *)
(* value of the CSRF header.                                               *)

CsrfValues == {"", "read", "write", "delete", "create", "login", "verify"}

CsrfStoreRequests ==
    LET b == StoreBase("alice")
    IN  {[q EXCEPT !.csrf = c] :
            q \in {[b EXCEPT !.action = "getStorage"],
                   [b EXCEPT !.action = "updateStorage", !.data = DocData(InitialStorage)],
                   [b EXCEPT !.action = "addFile", !.data = FileData("a.txt", "QQ==")],
                   [b EXCEPT !.action = "renameItem", !.itemType = "folder",
                             !.fileId = "root", !.newName = "new"],
                   [b EXCEPT !.action = "deleteItem", !.itemType = "file",
                             !.fileId = IdOf(StartTime)],
                   [b EXCEPT !.cookie = NoToken]},
            c \in CsrfValues}

CsrfAuthRequests ==
    {[q EXCEPT !.csrf = c] :
        q \in {AuthCall("create", "bob", "pw1"), AuthCall("login", "alice", "pw1"),
               [AuthCall("verify", "", "") EXCEPT !.cookie = JwtSign("alice")]},
        c \in CsrfValues}

InitCsrf == InitStoreBin

NextCsrf ==
    \/ \E req \in CsrfAuthRequests : AuthBinStart("r1", req)
    \/ AuthBinGot("r1")
    \/ AuthBinHashed("r1")
    \/ AuthBinPosted("r1")
    \/ AuthBinPut("r1")
    \/ AuthBinCompared("r1")
    \/ \E req \in CsrfStoreRequests : StoreBinStart("r1", req)
    \/ StoreBinGot("r1")
    \/ StoreBinPut("r1")
    \/ Release("r1")

SpecCsrf == InitCsrf /\ [][NextCsrf]_vars

----------------------------------------------------------------------------
(* The storage handlers with two storage ids.  Each request carries the    *)
(* token of one id and names the other id in its body; the in-memory       *)
(* handler and the JSONBin handler get the same requests.  The external    *)
(* store starts with the documents of two storages created through the     *)
(* auth handler and saved once by their clients.                           *)

IsoRequests ==
    UNION {LET b == [StoreBase(s) EXCEPT !.storageId = o]
           IN  {[b EXCEPT !.action = "getStorage", !.csrf = "read"],
                [b EXCEPT !.action = "updateStorage",
                          !.data = DocData(FlatDoc(<< >>, << >>))],
                [b EXCEPT !.action = "addFile", !.data = FileData("a.txt", "QQ==")],
                [b EXCEPT !.action = "addFolder", !.data = FolderData("docs")],
                [b EXCEPT !.action = "renameItem", !.itemType = "folder",
                          !.fileId = "root", !.newName = "new"],
                [b EXCEPT !.action = "deleteItem", !.csrf = "delete",
                          !.itemType = "file", !.fileId = IdOf(StartTime)],
                [b EXCEPT !.action = "deleteItem", !.csrf = "delete",
                          !.itemType = "folder", !.fileId = "root"]} :
           s \in StorageIds, o \in StorageIds}

InitIso ==
    /\ now = StartTime
    /\ storageData = << >>
    /\ users = << >>
    /\ bins = [s \in StorageIds |-> InitialStorage]
    /\ rateLimitMap = << >>
    /\ authRateLimitMap = << >>
    /\ reqs = [r \in Slots |-> IdleSlot]
    /\ page = IdlePage

NextIso ==
    \/ \E req \in IsoRequests : StoreMemRequest("r1", req)
    \/ \E req \in IsoRequests : StoreBinStart("r1", req)
    \/ StoreBinGot("r1")
    \/ StoreBinPut("r1")
    \/ Release("r1")

SpecIso == InitIso /\ [][NextIso]_vars

----------------------------------------------------------------------------
(* The handlers of the login page. *)

PageUnchanged ==
    UNCHANGED <<now, storageData, users, bins, rateLimitMap, authRateLimitMap, reqs>>

\* The submit listeners: handleCreateStorage and handleLogin up to apiFetch.
Submit(action, storageId, password) ==
    /\ page.pc = "idle"
    /\ page' = IF storageId = "" \/ password = ""
               THEN [page EXCEPT !.toast = Toast("Please fill all fields", "error")]
               ELSE [page EXCEPT !.pc = "fetch", !.action = action,
                                 !.storageId = storageId, !.password = password,
                                 !.reply = NoReply, !.simulated = FALSE,
                                 !.toast = NoToast]
    /\ PageUnchanged

\* The end of a handler that has a success to report: the toast, and the
\* timer of the auto login or, for a login, the login state and the redirect.
Succeed(p, message) ==
    IF p.action = "create"
    THEN [p EXCEPT !.pc = "timer", !.toast = Toast(message, "success")]
    ELSE [p EXCEPT !.pc = "redirect", !.toast = Toast(message, "success"),
                   !.currentUser = p.storageId]

\* apiFetch has come back.
Fetched(reply) ==
    /\ page.pc = "fetch"
    /\ LET result == ApiFetch(reply)
           p == [page EXCEPT !.reply = reply]
       IN  page' = IF result.success
                   THEN Succeed(p, IF p.action = "create"
                                   THEN "Storage created successfully!"
                                   ELSE "Login successful!")
                   ELSE [p EXCEPT !.pc = "simulate", !.simulated = TRUE]
    /\ PageUnchanged

\* simulateApiResponse has resolved.
Simulated ==
    /\ page.pc = "simulate"
    /\ LET result == SimulateApiResponse(page.action, page.storageId, page.password,
                                         page.users, now)
           p == [page EXCEPT !.users = result.users]
       IN  page' = IF result.success
                   THEN Succeed(p, IF p.action = "create"
                                   THEN "Storage created successfully! (Demo Mode)"
                                   ELSE "Login successful! (Demo Mode)")
                   ELSE [p EXCEPT !.pc = "idle", !.toast = Toast(result.error, "error")]
    /\ PageUnchanged

\* setTimeout(() => handleLoginAfterCreate(storageId, password), 1500)
AutoLogin ==
    /\ page.pc = "timer"
    /\ page' = [page EXCEPT !.pc = "fetch", !.action = "login", !.reply = NoReply,
                            !.simulated = FALSE]
    /\ PageUnchanged

\* window.location.href = '/dashboard.html'
Redirect ==
    /\ page.pc = "redirect"
    /\ page' = [page EXCEPT !.pc = "left", !.location = "/dashboard.html"]
    /\ PageUnchanged

\* The login page is opened again.
LoadPage ==
    /\ page.pc = "left"
    /\ page' = [LoadedPage(page.users, page.currentUser) EXCEPT !.cookie = page.cookie]
    /\ PageUnchanged

InitPage == InitCommon

NextPage ==
    \/ Tick
    \/ \E action \in {"create", "login"}, storageId \in StorageIds \cup {""},
          password \in Passwords :
          Submit(action, storageId, password)
    \/ \E reply \in Replies : Fetched(reply)
    \/ Simulated
    \/ AutoLogin
    \/ Redirect
    \/ LoadPage

SpecPage == InitPage /\ [][NextPage]_vars

----------------------------------------------------------------------------
(* One browser and the JSONBin-backed handlers: the session cookie.  The   *)
(* browser keeps the cookie of a Set-Cookie header and sends it with every *)
(* request to the origin; the logout button of the file manager assigns    *)
(* document.cookie and goes back to the login page.                        *)

\* res.setHeader('Set-Cookie', `token=${token}; HttpOnly; Path=/; ...`)
SetCookieHeader(token) == [token |-> token, httpOnly |-> TRUE]

\* document.cookie = 'token=; expires=Thu, 01 Jan 1970 00:00:00 UTC; path=/;'
\* removes the cookie named token, unless it is HttpOnly: an assignment from
\* script to a cookie with that attribute is ignored.
DocumentCookieExpire(cookie) == IF cookie.httpOnly THEN cookie ELSE NoCookie

\* The requests of the browser, each with the cookie it holds: the login form,
\* checkAuth, the getStorage of the file manager and two storage requests
\* more.
SessionAuthRequests ==
    {[q EXCEPT !.cookie = page.cookie.token] :
        q \in {AuthCall("login", "alice", p) : p \in Passwords}
                 \cup {[AuthCall("verify", "", "") EXCEPT !.deviceFingerprint = ""]}}

SessionStoreRequests ==
    LET b == [StoreBase("alice") EXCEPT !.cookie = page.cookie.token]
    IN  {[b EXCEPT !.action = "getStorage", !.csrf = "read"],
         [b EXCEPT !.action = "updateStorage", !.data = DocData(InitialStorage)],
         [b EXCEPT !.action = "addFolder", !.data = FolderData("docs")]}

\* The login form is on the login page; the file manager sends its requests
\* once it is loaded.
SessionAuthStart(r, req) ==
    /\ req.action = "login" => page.pc # "manager"
    /\ AuthBinStart(r, req)

SessionStoreStart(r, req) ==
    /\ page.pc # "idle"
    /\ StoreBinStart(r, req)

\* The response reaches the browser: the cookie of a Set-Cookie header is kept,
\* and the login page goes to the file manager on a login answered 200.
Receive(r) ==
    /\ reqs[r].pc = "done"
    /\ reqs' = [reqs EXCEPT ![r] = IdleSlot]
    /\ page' = [page EXCEPT
                  !.cookie = IF reqs[r].resp.cookie.present
                             THEN SetCookieHeader(reqs[r].resp.cookie) ELSE @,
                  !.pc = IF reqs[r].req.action = "login" /\ reqs[r].resp.status = 200
                         THEN "manager" ELSE @,
                  !.location = IF reqs[r].req.action = "login"
                                    /\ reqs[r].resp.status = 200
                               THEN "/dashboard.html" ELSE @]
    /\ UNCHANGED <<now, storageData, users, bins, rateLimitMap, authRateLimitMap>>

\* The click on logout-btn.
Logout ==
    /\ page.pc = "manager"
    /\ \A r \in Slots : Free(r)
    /\ page' = [page EXCEPT !.cookie = DocumentCookieExpire(@), !.pc = "out",
                            !.location = "/"]
    /\ PageUnchanged

InitSession == InitStoreBin

NextSession ==
    \/ \E req \in SessionAuthRequests : SessionAuthStart("r1", req)
    \/ AuthBinGot("r1")
    \/ AuthBinCompared("r1")
    \/ \E req \in SessionStoreRequests : SessionStoreStart("r1", req)
    \/ StoreBinGot("r1")
    \/ StoreBinPut("r1")
    \/ Receive("r1")
    \/ Logout

SpecSession == InitSession /\ [][NextSession]_vars

----------------------------------------------------------------------------
(* Properties of the storage handler. *)

\* The step in which the handler answers the request of slot r.
Answers(r) == reqs[r].pc # "done" /\ reqs'[r].pc = "done"

HasId(seq, id) == \E i \in DOMAIN seq : seq[i].id = id

\* C2: in every reachable state, every stored storage object has a folders
\* collection with a folder whose id is "root".
RootAlwaysPresent ==
    \A s \in DOMAIN storageData :
        "folders" \in storageData[s].has /\ HasId(storageData[s].folders, "root")

DistinctIds(seq) ==
    \A i, j \in DOMAIN seq : i # j => seq[i].id # seq[j].id

\* C3: in every reachable state, no two file records of a storage object share an
\* id and no two folder records share an id.
IdsUnique ==
    \A s \in DOMAIN storageData :
        DistinctIds(storageData[s].files) /\ DistinctIds(storageData[s].folders)

\* The storage handler answers 200 to a deleteItem of a folder in this step.
DeletesFolder(r) ==
    /\ Answers(r)
    /\ reqs'[r].handler = "storage"
    /\ reqs'[r].req.action = "deleteItem"
    /\ reqs'[r].req.itemType = "folder"
    /\ reqs'[r].resp.status = 200

\* C4: when deleteItem of folder F is answered 200, the stored object has no
\* folder with id F and no file whose folderId is F, and every file the object
\* held before whose folderId is not F is still in it.
CascadeOnDelete ==
    [][\A r \in Slots :
          DeletesFolder(r) =>
              LET F == reqs'[r].req.fileId
                  before == reqs'[r].userStorage
                  after == storageData'[reqs'[r].req.cookie.storageId]
              IN  /\ ~HasId(after.folders, F)
                  /\ \A i \in DOMAIN after.files : after.files[i].folderId # F
                  /\ \A i \in DOMAIN before.files :
                        before.files[i].folderId # F =>
                            \E j \in DOMAIN after.files : after.files[j] = before.files[i]
      ]_vars

\* A folder was deleted that held a file, while another file lay elsewhere.
CascadeWitness ==
    \E r \in Slots :
        /\ reqs[r].pc = "done" /\ reqs[r].handler = "storage"
        /\ reqs[r].req.action = "deleteItem" /\ reqs[r].req.itemType = "folder"
        /\ reqs[r].resp.status = 200
        /\ HasId(reqs[r].userStorage.folders, reqs[r].req.fileId)
        /\ \E i, j \in DOMAIN reqs[r].userStorage.files :
              /\ reqs[r].userStorage.files[i].folderId = reqs[r].req.fileId
              /\ reqs[r].userStorage.files[j].folderId # reqs[r].req.fileId

\* id is F, or the id of a folder that lies under F through at most n parentId links.
RECURSIVE Within(_, _, _, _)
Within(id, F, folders, n) ==
    \/ id = F
    \/ /\ n > 0
       /\ \E i \in DOMAIN folders :
             folders[i].id = id /\ Within(folders[i].parentId, F, folders, n - 1)

\* C5: when deleteItem of a folder F of the storage object is answered 200, no
\* folder with parentId F is left and no file is left whose folder is F or a
\* folder nested under F.
NothingLeftBelow ==
    [][\A r \in Slots :
          DeletesFolder(r) /\ HasId(reqs'[r].userStorage.folders, reqs'[r].req.fileId) =>
              LET F == reqs'[r].req.fileId
                  before == reqs'[r].userStorage
                  after == storageData'[reqs'[r].req.cookie.storageId]
              IN  /\ \A i \in DOMAIN after.folders : after.folders[i].parentId # F
                  /\ \A i \in DOMAIN after.files :
                        ~Within(after.files[i].folderId, F, before.folders,
                                Len(before.folders))
      ]_vars

\* The storage handler answers the PUT of slot r with 200 in the next step.
PutAccepted(r) ==
    /\ StoreBinPut(r)
    /\ reqs'[r].resp.status = 200

\* C6: a request that waits for its PUT can always be answered 200, whatever the
\* other requests have written since it read the document; the answer to a PUT is
\* 200 or 500; and after a 200 the store holds exactly the document this request
\* built from what it had read, while after a 500 the store is as before.
NoConflictDetection ==
    /\ [](\A r \in Slots :
            reqs[r].pc = "put" /\ reqs[r].handler = "storage" => ENABLED PutAccepted(r))
    /\ [][\A r \in Slots :
            reqs[r].pc = "put" /\ reqs[r].handler = "storage" /\ reqs'[r].pc = "done" =>
                /\ reqs'[r].resp.status \in {200, 500}
                /\ reqs'[r].resp.status = 200 =>
                      bins'[reqs[r].req.cookie.storageId] = reqs[r].pending.us
                /\ reqs'[r].resp.status = 500 => bins' = bins
         ]_vars

\* Two requests read the same document, both changed it and both were answered
\* 200; the store holds the document of one, and a record the other added is gone.
LostUpdateWitness ==
    \E r1, r2 \in Slots :
        /\ r1 # r2
        /\ \A r \in {r1, r2} :
              /\ reqs[r].pc = "done" /\ reqs[r].handler = "storage"
              /\ reqs[r].pending.kind = "save" /\ reqs[r].resp.status = 200
        /\ reqs[r1].userStorage = reqs[r2].userStorage
        /\ bins[reqs[r2].req.cookie.storageId] = reqs[r2].pending.us
        /\ \E i \in DOMAIN reqs[r1].pending.us.folders :
              /\ ~HasId(reqs[r1].userStorage.folders, reqs[r1].pending.us.folders[i].id)
              /\ ~HasId(bins[reqs[r1].req.cookie.storageId].folders,
                        reqs[r1].pending.us.folders[i].id)

\* The request has no cookie the handler accepts, or no CSRF header it accepts.
Unauthenticated(req) ==
    \/ ~req.cookie.present
    \/ ~JwtVerify(req.cookie)
    \/ req.csrf \notin {"read", "write", "delete"}

\* C7: a POST request to the storage handler without an accepted cookie or without
\* an accepted CSRF header is answered 401 at once: no GET or PUT is issued for it,
\* the store is unchanged and the rate-limit map is unchanged.
RefusedBeforeAnyEffect ==
    [][\A r \in Slots :
          /\ reqs[r].pc = "idle" /\ reqs'[r].pc # "idle"
          /\ reqs'[r].handler = "storage"
          /\ reqs'[r].req.method = "POST"
          /\ Unauthenticated(reqs'[r].req)
          => /\ reqs'[r].pc = "done"
             /\ reqs'[r].resp.status = 401
             /\ bins' = bins
             /\ storageData' = storageData
             /\ rateLimitMap' = rateLimitMap
      ]_vars

\* A request that would delete the root folder was answered 401 after other
\* requests had been counted, and the root folder is where it was.
RefusedWitness ==
    \E r \in Slots :
        /\ reqs[r].pc = "done" /\ reqs[r].handler = "storage"
        /\ reqs[r].req.method = "POST" /\ Unauthenticated(reqs[r].req)
        /\ reqs[r].req.action = "deleteItem"
        /\ reqs[r].resp.status = 401
        /\ FreshIP \in DOMAIN rateLimitMap
        /\ "files" \in bins["alice"].has
        /\ HasId(bins["alice"].folders, "root")

----------------------------------------------------------------------------
(* Properties of the auth handler. *)

\* The response in slot r is the 200 of a create request for storageId.
Created(r, storageId) ==
    /\ reqs[r].pc = "done" /\ reqs[r].handler = "auth"
    /\ reqs[r].req.action = "create" /\ reqs[r].req.storageId = storageId
    /\ reqs[r].resp.status = 200

\* C1: of the create requests for one storage id, concurrent ones included, at
\* most one is answered 200 with a session cookie; no two responses waiting
\* for delivery are both the 200 of a create for the same id.
CreateOnce ==
    \A storageId \in StorageIds : \A r1, r2 \in Slots :
        Created(r1, storageId) /\ Created(r2, storageId) => r1 = r2

\* C8: the auth handler sets the session cookie on exactly the responses with
\* status 200 to the actions create and login, and the token in it is signed
\* and names the storage id of the request.
CookieOnSuccess ==
    \A r \in Slots :
        reqs[r].pc = "done" /\ reqs[r].handler = "auth" =>
            /\ reqs[r].resp.cookie.present <=>
                  (reqs[r].req.action \in {"create", "login"} /\ reqs[r].resp.status = 200)
            /\ reqs[r].resp.cookie.present =>
                  /\ JwtVerify(reqs[r].resp.cookie)
                  /\ reqs[r].resp.cookie.storageId = reqs[r].req.storageId

\* A login answered 200 with its cookie next to a login answered 401.
CookieWitness ==
    \E r1, r2 \in Slots :
        /\ reqs[r1].pc = "done" /\ reqs[r1].handler = "auth"
        /\ reqs[r1].req.action = "login" /\ reqs[r1].resp.status = 200
        /\ reqs[r1].resp.cookie = JwtSign(reqs[r1].req.storageId)
        /\ reqs[r2].pc = "done" /\ reqs[r2].handler = "auth"
        /\ reqs[r2].req.action = "login" /\ reqs[r2].resp.status = 401
        /\ ~reqs[r2].resp.cookie.present

----------------------------------------------------------------------------
(* Properties of both handlers. *)

\* The response in slot r is an error response with a status of the set.
ErrorWithin(r, statuses) ==
    reqs[r].pc = "done" /\ reqs[r].resp.status # 200 =>
        /\ reqs[r].resp.status \in statuses
        /\ reqs[r].resp.body = "json"
        /\ reqs[r].resp.error # ""

\* C9 as stated: every response of the auth handler and of the storage handler
\* that is not a success has a status in {400, 401, 404, 409, 429, 500} and a
\* JSON body with an error message.
ErrorStatuses ==
    \A r \in Slots : ErrorWithin(r, {400, 401, 404, 409, 429, 500})

\* C9, amended: every response of the auth handler and of the storage handler
\* that is not a success has a status in {400, 401, 404, 405, 409, 429, 500}
\* and a JSON body with an error message; 405 answers a request whose method is
\* neither POST nor OPTIONS.
ErrorStatusesWith405 ==
    \A r \in Slots :
        /\ ErrorWithin(r, {400, 401, 404, 405, 409, 429, 500})
        /\ reqs[r].pc = "done" =>
              (reqs[r].resp.status = 405 <=> reqs[r].req.method \notin {"POST", "OPTIONS"})

\* The storage handler has answered a GET while the address at its limit with
\* the auth handler has had its request counted and refused.
ErrorStatusesWitness ==
    /\ reqs["r1"].pc = "done" /\ reqs["r1"].handler = "storage"
    /\ reqs["r1"].req.method = "GET"
    /\ reqs["r1"].resp.status = 405 /\ reqs["r1"].resp.error = "Method not allowed"
    /\ Len(authRateLimitMap[BusyKey]) = AUTH_RATE_LIMIT

----------------------------------------------------------------------------
(* Properties of the login page. *)

\* The server has answered the request of the page with a JSON error.
AnsweredError == page.reply.kind = "json" /\ ~Ok(page.reply.status)

\* C10: when the server answers the request of handleCreateStorage or of
\* handleLoginAfterCreate with a JSON error, simulateApiResponse is not invoked
\* and the page reports the error, never a successful create or login.
FallbackOnlyOffline ==
    AnsweredError =>
        /\ page.pc # "simulate" /\ ~page.simulated
        /\ page.toast.type # "success"
        /\ page.pc \notin {"timer", "redirect", "left"}

----------------------------------------------------------------------------
(* Properties of the rate limiter. *)

\* The number of timestamps of key that lie within the hour that ends at t.
InWindow(map, key, t) ==
    IF key \in DOMAIN map
    THEN Cardinality({i \in DOMAIN map[key] : map[key][i] > t - RATE_WINDOW})
    ELSE 0

\* This step is the start of a request to the auth handler in slot r.
AuthStarts(r) ==
    reqs[r].pc = "idle" /\ reqs'[r].pc # "idle" /\ reqs'[r].handler = "auth"

\* No step forgets a timestamp of the map that is still within the hour.
KeepsRecent(map, mapAfter) ==
    \A key \in DOMAIN map : InWindow(mapAfter, key, now') >= InWindow(map, key, now')

\* C11: the auth handler lets a request reach the action dispatch only while
\* fewer than 60 timestamps of its key (client IP, device fingerprint) lie
\* within the last hour, and then records its time; a request that arrives with
\* 60 of them within the hour is answered 429 and adds none; recorded times stay
\* while they are within the hour, so that at most 60 requests of a key pass in
\* an hour; and no list ever holds more than 60 timestamps.
AuthRateLimit ==
    /\ [](\A key \in DOMAIN authRateLimitMap :
             Len(authRateLimitMap[key]) <= AUTH_RATE_LIMIT)
    /\ [][\A r \in Slots : AuthStarts(r) =>
            LET req == reqs'[r].req
                key == AuthKey(ClientIP(req), req.deviceFingerprint)
                n == InWindow(authRateLimitMap, key, now)
                after == InWindow(authRateLimitMap', key, now)
                reaches == AuthGate(req, "Invalid CSRF token").status = 0
            IN  IF ~reaches THEN after = n /\ reqs'[r].resp.status # 429
                ELSE IF n >= AUTH_RATE_LIMIT
                THEN reqs'[r].resp.status = 429 /\ after = n
                ELSE /\ reqs'[r].resp.status # 429
                     /\ after = n + 1
                     /\ authRateLimitMap'[key][Len(authRateLimitMap'[key])] = now]_vars
    /\ [][KeepsRecent(authRateLimitMap, authRateLimitMap')]_vars

\* The sixtieth login of the hour has passed and the next one is refused.
AuthRateLimitWitness ==
    /\ reqs["r1"].pc = "done" /\ reqs["r1"].handler = "auth"
    /\ reqs["r1"].resp.status = 429
    /\ InWindow(authRateLimitMap, BusyKey, now) = AUTH_RATE_LIMIT
    /\ authRateLimitMap[BusyKey][AUTH_RATE_LIMIT] >= StartTime

\* This step is the start of a request to the storage handler in slot r.
StoreStarts(r) ==
    reqs[r].pc = "idle" /\ reqs'[r].pc # "idle" /\ reqs'[r].handler = "storage"

\* C12: the storage handler counts a request under its client IP alone,
\* whatever the storage id of its token and its action: a request passes only
\* while fewer than 120 timestamps of its IP lie within the last hour, and then
\* records its time; the one that arrives with 120 of them within the hour is
\* answered 429 at once, with no read and no write of the store; recorded
\* times stay while they are within the hour.
StoreRateLimit ==
    /\ [][\A r \in Slots : StoreStarts(r) =>
            LET req == reqs'[r].req
                key == ClientIP(req)
                n == InWindow(rateLimitMap, key, now)
                after == InWindow(rateLimitMap', key, now)
            IN  /\ DOMAIN rateLimitMap' \subseteq DOMAIN rateLimitMap \cup {key}
                /\ IF StoreGate(req).status # 0
                   THEN after = n /\ reqs'[r].resp.status # 429
                   ELSE IF n >= STORE_RATE_LIMIT
                   THEN /\ reqs'[r].resp.status = 429 /\ after = n
                        /\ reqs'[r].pc = "done" /\ bins' = bins
                   ELSE /\ reqs'[r].resp.status # 429
                        /\ after = n + 1
                        /\ rateLimitMap'[key][Len(rateLimitMap'[key])] = now]_vars
    /\ [][KeepsRecent(rateLimitMap, rateLimitMap')]_vars
    /\ [][\A r \in Slots :
            reqs[r].pc = "done" /\ reqs[r].resp.status = 429 =>
                reqs'[r].pc \in {"done", "idle"}]_vars

\* A request with the token of one storage id is refused when the address has
\* made its 120 requests of the hour, the last of them for either id.
StoreRateLimitWitness ==
    /\ reqs["r1"].pc = "done" /\ reqs["r1"].handler = "storage"
    /\ reqs["r1"].resp.status = 429
    /\ reqs["r1"].req.cookie.storageId = "bob"
    /\ InWindow(rateLimitMap, BusyIP, now) = STORE_RATE_LIMIT
    /\ rateLimitMap[BusyIP][STORE_RATE_LIMIT] >= StartTime

\* Every list of the map is non-empty and holds only timestamps of the hour
\* that ends at t.
Cleaned(map, t) ==
    \A key \in DOMAIN map :
        Len(map[key]) > 0 /\ InWindow(map, key, t) = Len(map[key])

\* A call of isRateLimited for key, with the answer limited (the request is
\* answered 429), takes map to mapAfter as a sliding window that recovers does.
Recovers(map, mapAfter, key, limited) ==
    /\ limited =>
          /\ key \in DOMAIN map /\ key \in DOMAIN mapAfter
          /\ mapAfter[key] = SelectSeq(map[key], LAMBDA ts : ts > now - RATE_WINDOW)
    /\ key \in DOMAIN map /\ Len(map[key]) > 0
          /\ now > map[key][1] + RATE_WINDOW => ~limited
    /\ Cleaned(mapAfter, now)

\* C13: a request answered 429 adds no timestamp for its key; a key is accepted
\* again by the first request that arrives more than 3600000 ms after the
\* oldest request counted for it, whatever was refused in between; and a call
\* of isRateLimited leaves no entry and no timestamp older than the hour in the
\* map.  Stated for the auth handler and for the storage handler.
WindowRecovers ==
    /\ [][\A r \in Slots :
            AuthStarts(r) /\ AuthGate(reqs'[r].req, "Invalid CSRF token").status = 0 =>
                Recovers(authRateLimitMap, authRateLimitMap',
                         AuthKey(ClientIP(reqs'[r].req), reqs'[r].req.deviceFingerprint),
                         reqs'[r].resp.status = 429)]_vars
    /\ [][\A r \in Slots :
            StoreStarts(r) /\ StoreGate(reqs'[r].req).status = 0 =>
                Recovers(rateLimitMap, rateLimitMap', ClientIP(reqs'[r].req),
                         reqs'[r].resp.status = 429)]_vars

\* The address that made its sixtieth request at the start of the model is
\* accepted again an hour later, when only that request is still in the window.
WindowRecoversWitness ==
    /\ reqs["r1"].pc # "idle" /\ reqs["r1"].handler = "auth"
    /\ AuthKey(ClientIP(reqs["r1"].req), reqs["r1"].req.deviceFingerprint) = BusyKey
    /\ reqs["r1"].resp.status # 429
    /\ now >= StartTime + RATE_WINDOW - 1
    /\ BusyKey \in DOMAIN authRateLimitMap
    /\ Len(authRateLimitMap[BusyKey]) = 2
    /\ authRateLimitMap[BusyKey][1] = StartTime
    /\ authRateLimitMap[BusyKey][2] = now

----------------------------------------------------------------------------
(* Properties of the storage id as the key of the external store. *)

\* C14: once a create for storage id s with password p has been answered 200
\* by the JSONBin-backed auth handler, the record is found under s: a login
\* with (s, p) whose GET comes back afterwards is answered 200, one with another
\* password 401, and another create for s 409.
CreateThenLogin ==
    [][\A r1, r2 \in Slots :
          /\ r1 # r2
          /\ Created(r1, reqs[r1].req.storageId)
          /\ reqs[r2].pc = "get" /\ reqs[r2].handler = "auth"
          /\ reqs[r2].req.storageId = reqs[r1].req.storageId
          /\ reqs'[r2] # reqs[r2]
          => IF reqs[r2].req.action = "create"
             THEN reqs'[r2].resp.status = 409
             ELSE IF reqs[r2].req.action = "login"
             THEN /\ reqs'[r2].pc = "compare"
                  /\ LoginResult(reqs[r2].req, reqs'[r2].userStorage).status
                        = IF reqs[r2].req.password = reqs[r1].req.password
                          THEN 200 ELSE 401
             ELSE TRUE]_vars

----------------------------------------------------------------------------
(* Properties of the CSRF header. *)

\* The request in slot r has been refused for its CSRF header.
CsrfRefused(slot) ==
    slot.pc = "done" /\ slot.resp.status = 401 /\ slot.resp.error = "Invalid CSRF token"

\* C15: whether a handler refuses a request for its CSRF header depends on
\* the value of the header alone: the auth handler refuses a POST with a body
\* exactly when the value is none of create, login, verify, and the storage
\* handler refuses a POST with a valid session token exactly when the value is
\* none of read, write, delete, whatever the action, the token and the requests
\* made before.
CsrfByValueOnly ==
    [][\A r \in Slots :
          /\ AuthStarts(r) /\ reqs'[r].req.method = "POST" /\ reqs'[r].req.hasBody
                => (CsrfRefused(reqs'[r])
                      <=> reqs'[r].req.csrf \notin {"create", "login", "verify"})
          /\ StoreStarts(r) /\ reqs'[r].req.method = "POST"
                /\ JwtVerify(reqs'[r].req.cookie)
                => (CsrfRefused(reqs'[r])
                      <=> reqs'[r].req.csrf \notin {"read", "write", "delete"})]_vars

\* A deleteItem sent with the header read has removed a file.
CsrfWitness ==
    /\ reqs["r1"].pc = "done" /\ reqs["r1"].handler = "storage"
    /\ reqs["r1"].req.action = "deleteItem" /\ reqs["r1"].req.csrf = "read"
    /\ reqs["r1"].resp.status = 200
    /\ Len(reqs["r1"].userStorage.files) > Len(bins["alice"].files)

----------------------------------------------------------------------------
(* Properties of the lifecycle of the records. *)

\* The object the in-memory handler works on for a storage id: the stored
\* one, or the one the handler creates on the first request for the id.
Stored(sd, storageId) ==
    IF storageId \in DOMAIN sd THEN sd[storageId] ELSE InitialStorage

\* The request in slot r after this step was answered by the storage handler,
\* past the checks of the token, the CSRF header and the rate limiter.
Accepted(r) ==
    /\ Answers(r) /\ reqs'[r].handler = "storage"
    /\ StoreGate(reqs'[r].req).status = 0
    /\ reqs'[r].resp.status # 429

\* Every element of seq is an element of from, in the same order.
RECURSIVE IsSubsequence(_, _)
IsSubsequence(seq, from) ==
    IF seq = << >> THEN TRUE
    ELSE IF from = << >> THEN FALSE
    ELSE IF Head(seq) = Head(from) THEN IsSubsequence(Tail(seq), Tail(from))
    ELSE IsSubsequence(seq, Tail(from))

SameIds(seq, from) ==
    Len(seq) = Len(from) /\ \A i \in DOMAIN seq : seq[i].id = from[i].id

\* The lifecycle actions on the object before and the object after: addFile and
\* addFolder add at most one record at the end of their collection, renameItem
\* adds and removes none, deleteItem only removes.
LifecycleStep(action, before, after) ==
    /\ action = "addFile" =>
          /\ after.folders = before.folders
          /\ after.files = before.files
                \/ (Len(after.files) = Len(before.files) + 1
                      /\ SubSeq(after.files, 1, Len(before.files)) = before.files)
    /\ action = "addFolder" =>
          /\ after.files = before.files
          /\ after.folders = before.folders
                \/ (Len(after.folders) = Len(before.folders) + 1
                      /\ SubSeq(after.folders, 1, Len(before.folders)) = before.folders)
    /\ action = "renameItem" =>
          SameIds(after.files, before.files) /\ SameIds(after.folders, before.folders)
    /\ action = "deleteItem" =>
          /\ IsSubsequence(after.files, before.files)
          /\ IsSubsequence(after.folders, before.folders)

LifecycleActions == {"addFile", "addFolder", "renameItem", "deleteItem"}

\* C16 as stated: an accepted request adds, changes or removes a file or folder
\* record only if its action is addFile, addFolder, renameItem or deleteItem,
\* each in its own way; updateStorage, getStorage and every other action leave
\* the records of the storage id as they are, and the records of the other
\* storage ids are left as they are by all.
LifecycleOnly ==
    [][\A r \in Slots : Accepted(r) =>
          LET storageId == reqs'[r].req.cookie.storageId
              before == Stored(storageData, storageId)
              after == storageData'[storageId]
          IN  /\ LifecycleStep(reqs'[r].req.action, before, after)
              /\ reqs'[r].req.action \notin LifecycleActions => after = before
              /\ \A s \in DOMAIN storageData \ {storageId} :
                    storageData'[s] = storageData[s]]_vars

\* C16, amended: as stated, except that an updateStorage answered 200 replaces
\* the whole object of the storage id by the data of the request, and so may add,
\* change and remove any record; an updateStorage answered otherwise, getStorage
\* and every other action leave the records as they are.
LifecycleAndUpdate ==
    [][\A r \in Slots : Accepted(r) =>
          LET storageId == reqs'[r].req.cookie.storageId
              before == Stored(storageData, storageId)
              after == storageData'[storageId]
              action == reqs'[r].req.action
          IN  /\ LifecycleStep(action, before, after)
              /\ action = "updateStorage" /\ reqs'[r].resp.status = 200 =>
                    after = reqs'[r].req.data.doc
              /\ action \notin LifecycleActions
                    /\ ~(action = "updateStorage" /\ reqs'[r].resp.status = 200)
                    => after = before
              /\ \A s \in DOMAIN storageData \ {storageId} :
                    storageData'[s] = storageData[s]]_vars

\* An updateStorage has been answered 200 and the root folder is gone.
LifecycleWitness ==
    \E r \in Slots :
        /\ reqs[r].pc = "done" /\ reqs[r].handler = "storage"
        /\ reqs[r].req.action = "updateStorage" /\ reqs[r].resp.status = 200
        /\ HasId(reqs[r].userStorage.folders, "root")
        /\ storageData[reqs[r].req.cookie.storageId] = reqs[r].req.data.doc
        /\ ~HasId(storageData[reqs[r].req.cookie.storageId].folders, "root")

----------------------------------------------------------------------------
(* Properties of the user record in the external store. *)

\* C17: when the JSONBin-backed storage handler has read, for an addFile
\* request with data, the user record as the auth handler has written it, it
\* goes on to save the record with exactly one file record more, at the end of
\* the files collection of the embedded storage object, and to answer 200.
FileAppendedToRecord ==
    [][\A r \in Slots :
          /\ reqs[r].pc = "get" /\ reqs[r].handler = "storage"
          /\ reqs[r].req.action = "addFile" /\ reqs[r].req.data.present
          /\ reqs'[r].pc # "get"
          /\ "storage" \in reqs'[r].userStorage.has
          => /\ reqs'[r].pc = "put"
             /\ reqs'[r].pending.resp.status = 200
             /\ reqs'[r].pending.us.storage.files
                   = Append(reqs'[r].userStorage.storage.files,
                            NewFile(reqs[r].req.data, reqs[r].req.folderId, now))]_vars

----------------------------------------------------------------------------
(* Properties of the in-memory storage handler under interleaving. *)

\* after is before with one record more at its end, of the given name.
Extended(after, before, name) ==
    /\ Len(after) = Len(before) + 1
    /\ SubSeq(after, 1, Len(before)) = before
    /\ after[Len(after)].name = name

\* C18: a request to the in-memory storage handler is one step, so that every
\* addFile and addFolder answered 200 leaves in the stored object all the
\* records it found there, those of the requests answered before it included,
\* and its own record after them: no interleaving of such requests loses one.
NoLostUpdate ==
    [][\A r \in Slots :
          Accepted(r) /\ reqs'[r].resp.status = 200
              /\ reqs'[r].req.action \in {"addFile", "addFolder"} =>
          LET storageId == reqs'[r].req.cookie.storageId
              before == Stored(storageData, storageId)
              after == storageData'[storageId]
          IN  /\ reqs[r].pc = "idle"
              /\ IF reqs'[r].req.action = "addFile"
                 THEN /\ Extended(after.files, before.files, reqs'[r].req.data.name)
                      /\ after.folders = before.folders
                 ELSE /\ Extended(after.folders, before.folders, reqs'[r].req.data.name)
                      /\ after.files = before.files]_vars

\* Three requests answered 200 have left their three records.
NoLostUpdateWitness ==
    /\ reqs["r1"].pc = "done" /\ reqs["r1"].handler = "storage"
    /\ reqs["r1"].req.action = "addFile" /\ reqs["r1"].resp.status = 200
    /\ Len(storageData["alice"].files) = 2
    /\ Len(storageData["alice"].folders) = 2
    /\ Len(rateLimitMap[FreshIP]) = 3

----------------------------------------------------------------------------
(* Properties of renameItem. *)

\* after is before, except that the first record with the id has the new name
\* and the time t as its modification time.
RenamedIn(after, before, id, newName, t) ==
    /\ Len(after) = Len(before)
    /\ \E i \in DOMAIN before :
          /\ before[i].id = id /\ \A j \in 1 .. (i - 1) : before[j].id # id
          /\ \A j \in DOMAIN before \ {i} : after[j] = before[j]
          /\ DOMAIN after[i] = DOMAIN before[i]
          /\ \A f \in DOMAIN before[i] \ {"name", "modified"} : after[i][f] = before[i][f]
          /\ after[i].name = newName /\ after[i].modified = t

\* What a renameItem answered (or about to be answered) with the status made
\* of the object before.
RenameFrame(req, status, before, after, t) ==
    /\ status = 200 =>
          /\ req.itemType \in {"file", "folder"}
          /\ req.itemType = "file" =>
                /\ RenamedIn(after.files, before.files, req.fileId, req.newName, t)
                /\ after.folders = before.folders
          /\ req.itemType = "folder" =>
                /\ RenamedIn(after.folders, before.folders, req.fileId, req.newName, t)
                /\ after.files = before.files
    /\ status = 404 =>
          /\ \/ req.itemType = "file" /\ ~HasId(before.files, req.fileId)
             \/ req.itemType = "folder" /\ ~HasId(before.folders, req.fileId)
          /\ after = before

\* C19: a renameItem answered 200 changes the name and the modification time of
\* the first record of the item type with the id and nothing else: the other
\* records, the order and the length of both collections stay; a renameItem
\* whose id matches no record of the type is answered 404 and leaves the stored
\* object as it was.  In the JSONBin handler the object before is the one the
\* request read and the object after the one it puts.
RenameOnlyTarget ==
    [][\A r \in Slots :
          /\ Accepted(r) /\ reqs'[r].req.action = "renameItem"
                /\ reqs[r].pc = "idle" =>
                LET storageId == reqs'[r].req.cookie.storageId
                IN  /\ RenameFrame(reqs'[r].req, reqs'[r].resp.status,
                                   Stored(storageData, storageId),
                                   storageData'[storageId], now)
                    /\ reqs'[r].req.itemType \in {"file", "folder"}
                          /\ reqs'[r].req.fileId # "" /\ reqs'[r].req.newName # ""
                          /\ "files" \in Stored(storageData, storageId).has
                          /\ "folders" \in Stored(storageData, storageId).has
                          => reqs'[r].resp.status \in {200, 404}
          /\ reqs[r].pc = "get" /\ reqs[r].handler = "storage"
                /\ reqs[r].req.action = "renameItem" /\ reqs'[r].pc = "put" =>
                RenameFrame(reqs[r].req, 200, reqs'[r].userStorage,
                            reqs'[r].pending.us, now)
          /\ reqs[r].pc = "get" /\ reqs[r].handler = "storage"
                /\ reqs[r].req.action = "renameItem" /\ reqs'[r].pc = "done"
                /\ reqs'[r].resp.status = 404
                /\ reqs'[r].resp.error # "Storage not found" =>
                /\ RenameFrame(reqs[r].req, 404, reqs'[r].userStorage,
                               reqs'[r].userStorage, now)
                /\ bins' = bins
          /\ reqs[r].pc = "put" /\ reqs[r].handler = "storage"
                /\ reqs[r].req.action = "renameItem" /\ reqs'[r].pc = "done" =>
                \/ /\ reqs'[r].resp.status = 200
                   /\ bins'[reqs[r].req.cookie.storageId] = reqs[r].pending.us
                \/ reqs'[r].resp.status = 500 /\ bins' = bins]_vars

\* A rename answered 200 where two files have the id: the first has the new
\* name, the second has kept its own.
RenameWitness ==
    /\ reqs["r1"].pc = "done" /\ reqs["r1"].handler = "storage"
    /\ reqs["r1"].req.action = "renameItem" /\ reqs["r1"].req.itemType = "file"
    /\ reqs["r1"].resp.status = 200
    /\ LET files == storageData["alice"].files
       IN  /\ Len(files) = 2
           /\ files[1].id = reqs["r1"].req.fileId /\ files[2].id = reqs["r1"].req.fileId
           /\ files[1].name = "new" /\ files[2].name = "a.txt"

----------------------------------------------------------------------------
(* Properties of a failed PUT in the JSONBin storage handler. *)

\* The error a request reports when its PUT has failed.
SaveFailure(action) ==
    CASE action = "updateStorage" -> "Failed to update storage"
      [] action = "addFile" -> "Failed to add file"
      [] action = "addFolder" -> "Failed to add folder"
      [] action = "renameItem" -> "Failed to rename item"
      [] action = "deleteItem" -> "Failed to delete item"
      [] OTHER -> ""

\* C20: in the JSONBin storage handler the external store changes only in the
\* step in which a PUT succeeds.  A request whose PUT does not succeed is
\* answered 500 with the error of its action, and none of its steps changes
\* the store; and since every request takes the document from the store's
\* answer to its own GET, the next request finds no trace of it.
FailedPutChangesNothing ==
    [][\A r \in Slots : reqs'[r] # reqs[r] /\ "storage" \in {reqs[r].handler, reqs'[r].handler} =>
          LET storageId == reqs[r].req.cookie.storageId
          IN  /\ reqs[r].pc # "put" => bins' = bins
              /\ reqs[r].pc = "get" /\ reqs'[r].pc = "put" =>
                    /\ reqs'[r].userStorage = bins[storageId]
                    /\ reqs'[r].pending.fail = SaveFailure(reqs[r].req.action)
                    /\ reqs'[r].pending.fail # ""
              /\ reqs[r].pc = "get" /\ reqs'[r].pc = "done"
                    /\ reqs[r].req.action = "getStorage"
                    /\ reqs'[r].resp.status = 200 =>
                    reqs'[r].resp = DocResponse(bins[storageId])
              /\ reqs[r].pc = "put" =>
                    /\ reqs'[r].pc = "done"
                    /\ \/ /\ reqs'[r].resp.status = 200
                          /\ bins' = Put(bins, storageId, reqs[r].pending.us)
                       \/ /\ reqs'[r].resp = ErrorResponse(500, SaveFailure(reqs[r].req.action))
                          /\ bins' = bins]_vars

\* The PUT of an addFile has failed: the request is answered 500, the store
\* holds the document the request read, without the file, and a getStorage
\* answered after it shows the same document.
FailedPutWitness ==
    /\ reqs["r1"].pc = "done" /\ reqs["r1"].handler = "storage"
    /\ reqs["r1"].req.action = "addFile"
    /\ reqs["r1"].resp = ErrorResponse(500, "Failed to add file")
    /\ Len(reqs["r1"].pending.us.files) = 1
    /\ bins["alice"] = reqs["r1"].userStorage
    /\ bins["alice"].files = << >>
    /\ reqs["r2"].pc = "done" /\ reqs["r2"].handler = "storage"
    /\ reqs["r2"].req.action = "getStorage"
    /\ reqs["r2"].resp = DocResponse(bins["alice"])

----------------------------------------------------------------------------
(* Properties of create for a storage id that has a record. *)

\* C21: a create request for a storage id whose user record exists when the
\* handler looks for it is answered 409 without a cookie, whatever its
\* password, and the record stays as it is.  The in-memory handler looks in
\* users when the request arrives, the JSONBin handler when its GET comes back.
ExistingCreateRejected ==
    [][\A r \in Slots :
          /\ reqs[r].pc = "idle" /\ reqs'[r].handler = "auth"
                /\ reqs'[r].req.action = "create"
                /\ reqs'[r].req.storageId \in DOMAIN users
                /\ AuthBegin(reqs'[r].req, authRateLimitMap, now, "Invalid request").pc
                      = "create" =>
                /\ reqs'[r].pc = "done"
                /\ reqs'[r].resp.status = 409
                /\ ~reqs'[r].resp.cookie.present
                /\ users' = users
          /\ reqs[r].pc = "get" /\ reqs[r].handler = "auth"
                /\ reqs[r].req.action = "create"
                /\ reqs[r].req.storageId \in DOMAIN bins
                /\ reqs'[r] # reqs[r] =>
                /\ reqs'[r].pc = "done"
                /\ reqs'[r].resp.status = 409
                /\ ~reqs'[r].resp.cookie.present
                /\ bins' = bins]_vars

\* C22: no step of a create request of the JSONBin auth handler changes the
\* password hash or the storage object of a record the external store holds
\* for its storage id, whatever the store answers to the GET, the POST and
\* the PUT of the request.
CreateNeverOverwrites ==
    [][\A r \in Slots :
          /\ reqs[r].handler = "auth" /\ reqs[r].req.action = "create"
          /\ reqs'[r] # reqs[r]
          /\ reqs[r].req.storageId \in DOMAIN bins
          => LET storageId == reqs[r].req.storageId
             IN  /\ storageId \in DOMAIN bins'
                 /\ bins'[storageId].password = bins[storageId].password
                 /\ bins'[storageId].storage = bins[storageId].storage]_vars

----------------------------------------------------------------------------
(* Properties of the user record under the storage handler. *)

\* C23: the requests of the storage handler leave the password hash of the
\* user record alone, so that the record of a storage id always carries the
\* hash its create has written and a login with the password of the create,
\* once it has read the record, is answered 200.
OwnerNotLockedOut ==
    /\ [](\A s \in DOMAIN bins : \E p \in Passwords :
             LoginResult(AuthCall("login", s, p), bins[s]).status = 200)
    /\ [][\A r \in Slots :
             /\ reqs[r].handler = "storage" /\ reqs'[r] # reqs[r]
             /\ reqs[r].req.cookie.storageId \in DOMAIN bins
             => LET storageId == reqs[r].req.cookie.storageId
                IN  /\ storageId \in DOMAIN bins'
                    /\ "password" \in bins'[storageId].has
                    /\ bins'[storageId].password = bins[storageId].password]_vars

\* C24: the body of a 200 answer of the JSONBin storage handler to getStorage
\* holds the file and folder collections only, never the password hash of the
\* user record the auth handler has written.
NoHashDisclosed ==
    \A r \in Slots :
        /\ reqs[r].pc = "done" /\ reqs[r].handler = "storage"
        /\ reqs[r].req.action = "getStorage" /\ reqs[r].resp.status = 200
        => /\ reqs[r].resp.body = "storage"
           /\ reqs[r].resp.doc.has \subseteq {"files", "folders"}
           /\ \A p \in Passwords : reqs[r].resp.doc.password # BcryptHash(p)

----------------------------------------------------------------------------
(* Properties of the storage id of the token. *)

\* The record of storageId is in both mappings or in neither, and the same.
SameRecord(map, mapAfter, storageId) ==
    /\ storageId \in DOMAIN mapAfter <=> storageId \in DOMAIN map
    /\ storageId \in DOMAIN map => mapAfter[storageId] = map[storageId]

\* C25: every step of a storage request with a valid token for storage id s
\* leaves the record of every other storage id as it is, in the in-memory
\* mapping and in the external store, and the object the handler works on and
\* answers getStorage with is the record of s, whatever the body of the
\* request names.
StorageIsolation ==
    [][\A r \in Slots :
          LET slot == IF reqs[r].pc = "idle" THEN reqs'[r] ELSE reqs[r]
              s == slot.req.cookie.storageId
          IN  /\ reqs'[r] # reqs[r] /\ slot.handler = "storage"
              /\ JwtVerify(slot.req.cookie)
              => /\ \A o \in StorageIds \ {s} :
                       /\ SameRecord(storageData, storageData', o)
                       /\ SameRecord(bins, bins', o)
                 /\ reqs'[r].userStorage # reqs[r].userStorage =>
                       \/ reqs'[r].userStorage = EmptyDoc
                       \/ reqs[r].pc = "idle"
                             /\ reqs'[r].userStorage = Stored(storageData, s)
                       \/ reqs[r].pc = "get" /\ reqs'[r].userStorage = bins[s]
                 /\ reqs'[r].pc = "done" /\ reqs'[r].resp.body = "storage" =>
                       reqs'[r].resp.doc = reqs'[r].userStorage]_vars

\* A request with the token of alice and the id of bob in its body has emptied
\* the storage of alice; the file of bob is where it was, in the mapping of
\* the in-memory handler.
IsolationWitness ==
    /\ reqs["r1"].pc = "done" /\ reqs["r1"].handler = "storage"
    /\ reqs["r1"].req.cookie = JwtSign("alice") /\ reqs["r1"].req.storageId = "bob"
    /\ reqs["r1"].req.action = "updateStorage" /\ reqs["r1"].resp.status = 200
    /\ "alice" \in DOMAIN storageData /\ "bob" \in DOMAIN storageData
    /\ storageData["alice"] = FlatDoc(<< >>, << >>)
    /\ Len(storageData["bob"].files) = 1
    /\ HasId(storageData["bob"].folders, "root")

----------------------------------------------------------------------------
(* Properties of the requests the in-memory storage handler refuses. *)

\* C26: a request that the in-memory storage handler answers 400, 404 or 429
\* leaves storageData as it was: no record is created, replaced or changed.
NoEffectOnError ==
    [][\A r \in Slots :
          Answers(r) /\ reqs'[r].handler = "storage"
              /\ reqs'[r].resp.status \in {400, 404, 429}
          => storageData' = storageData]_vars

----------------------------------------------------------------------------
(* Properties of the session. *)

\* C27: once the logout handler of the file manager has run, the token of the
\* login is no longer accepted: until the next login, every verify request and
\* every storage request of the browser is answered 401.
LogoutEndsSession ==
    [][\A r \in Slots :
          /\ page.pc = "out" /\ Answers(r)
          /\ reqs'[r].handler = "storage" \/ reqs'[r].req.action = "verify"
          => reqs'[r].resp.status = 401]_vars

----------------------------------------------------------------------------
(* Properties of login. *)

\* The step answers a login that has passed the checks of the method, the CSRF
\* header, the rate limiter and the presence of storage id and password.
LoginAnswered(r) ==
    /\ Answers(r) /\ reqs'[r].handler = "auth" /\ reqs'[r].req.action = "login"
    /\ \/ reqs[r].pc \in {"get", "compare"}
       \/ /\ reqs[r].pc = "idle"
          /\ AuthBegin(reqs'[r].req, authRateLimitMap, now, "Invalid request").pc = "login"

\* C28: a login is answered 200 only when the record it has read carries the
\* hash of its password; every other login that gets as far as the look-up,
\* for a storage id without record, for one whose read fails and for one with
\* a record and another password, gets the same answer: 401, the one error
\* message, no cookie.
LoginRevealsNothing ==
    [][\A r \in Slots : LoginAnswered(r) =>
          \/ reqs'[r].resp = ErrorResponse(401, "Invalid storage ID or password")
          \/ /\ reqs'[r].resp.status = 200
             /\ reqs[r].pc = "compare"
             /\ BcryptCompare(reqs[r].req.password, reqs[r].userStorage.password)]_vars

----------------------------------------------------------------------------
(* Properties of the folder tree. *)

\* Every file of the object names a folder of the object, and so does every
\* folder but the root.
Anchored(us) ==
    /\ \A i \in DOMAIN us.files : HasId(us.folders, us.files[i].folderId)
    /\ \A i \in DOMAIN us.folders :
          us.folders[i].id # "root" => HasId(us.folders, us.folders[i].parentId)

\* C29: the initial storage object has every file in a folder it holds and
\* every folder but the root under a folder it holds, and every addFile,
\* addFolder and deleteItem answered 200 keeps it so.
EveryFileInAFolder ==
    /\ Anchored(InitialStorage)
    /\ [][\A r \in Slots :
             Accepted(r) /\ reqs'[r].resp.status = 200
                 /\ reqs'[r].req.action \in {"addFile", "addFolder", "deleteItem"}
                 /\ Anchored(Stored(storageData, reqs'[r].req.cookie.storageId))
             => Anchored(storageData'[reqs'[r].req.cookie.storageId])]_vars

----------------------------------------------------------------------------
(* Properties of deleteItem. *)

\* The request in slot r after this step is a deleteItem with a valid item
\* type and an id, answered by the in-memory handler on an object with both
\* collections.
DeleteAnswered(r) ==
    /\ Accepted(r) /\ reqs[r].pc = "idle"
    /\ reqs'[r].req.action = "deleteItem"
    /\ reqs'[r].req.itemType \in {"file", "folder"} /\ reqs'[r].req.fileId # ""
    /\ {"files", "folders"} \subseteq
          Stored(storageData, reqs'[r].req.cookie.storageId).has

\* No record of the object has the id.
Missing(us, id) == ~HasId(us.files, id) /\ ~HasId(us.folders, id)

\* The same deleteItem once more leaves the object as it is, and a renameItem
\* for an id that no record of the type has is answered 404.
OnceIsTwice(req, before, after, t) ==
    /\ Dispatch(after, req, t).us = after
    /\ Dispatch(after, req, t).resp.status = 200
    /\ ~HasId(IF req.itemType = "file" THEN before.files ELSE before.folders, req.fileId)
          => Dispatch(before, [req EXCEPT !.action = "renameItem", !.newName = "new"],
                      t).resp.status = 404

============================================================================
